---- MODULE Spec2Model ----
(***************************************************************************)
(* A model of the realtime-core package: RoomManager, PresenceStore,       *)
(* RealtimeHub, the RealtimeKernel dispatch loop, the WebSocket transport  *)
(* connection and the PeerMeshTransport.                                   *)
(*                                                                         *)
(* JavaScript Map  -> a function whose DOMAIN is the set of keys; a Map    *)
(*                    that is iterated comes with the sequence of its keys *)
(*                    in insertion order.                                  *)
(* JavaScript Set  -> a duplicate-free sequence in insertion order.        *)
(* JavaScript string used as a room name -> a sequence of characters.      *)
(* undefined / null -> the value Undefined.                                *)
(***************************************************************************)
EXTENDS Naturals, Sequences, FiniteSets, TLC

\* ------------------------------------------------------------------ bounds

\* WebSocket connections accepted over the life of one run (ids c1, c2, ...).
MaxClients == 2
\* Handlers registered with kernel.on over one run.
MaxHandlers == 2
\* Inbound messages handed to Hub.receive over one run.
MaxMsgs == 2
\* TCP connections dialled between the mesh nodes over one run.
MaxDials == 3
\* TCP connections dialled over one run in which the nodes also exchange messages, join
\* rooms or meet a peer that writes lines of its own.
MaxBusyDials == 2
\* stop() calls made on the nodes of the mesh over one run.
MaxStops == 1

\* Lines one 'data' event of a mesh connection carries.
MaxLines == 2
\* Hello lines one end of a mesh connection writes.
MaxHellos == 2
\* Outbound calls (send, broadcast, toolkit calls) made over one run.
MaxOut == 2
\* The largest value Date.now() takes.
MaxTime == 2
\* Transports given to one kernel.
MaxTransports == 2
\* start() and stop() calls made on one kernel over one run.
MaxCalls == 3
\* Ping frames one WebSocket connection writes.
MaxPings == 2
\* Signals the clients send to the signaling bridges over one run.
MaxSignals == 1

\* The longest stream of encoded frames, in frames.
MaxFrames == 2

\* How often the WebSocket transport is started on its http server.
MaxStarts == 2
\* Handlers registered, and sockets upgraded, while the WebSocket transport is studied.
WsHandlers == 1
WsSockets == 1
\* The longest stream a WebSocket delivers, in frames.
MaxStream == 3

\* ----------------------------------------------------------------- helpers

Undefined == "undefined"

\* if (value): undefined and the empty string are falsy.
Truthy(v) == v # Undefined /\ v # ""

Range(s) == {s[i] : i \in DOMAIN s}

\* Map.set / Map.delete / Map.has on a function with a dynamic domain.
MapSet(m, k, v) == [x \in (DOMAIN m) \cup {k} |-> IF x = k THEN v ELSE m[x]]
MapDelete(m, k) == [x \in (DOMAIN m) \ {k} |-> m[x]]
MapHas(m, k) == k \in DOMAIN m
EmptyMap == [x \in {} |-> Undefined]

\* Set.add / Set.delete / Set.has on an insertion-ordered sequence.
SetAdd(s, x) == IF x \in Range(s) THEN s ELSE Append(s, x)
SetDelete(s, x) == SelectSeq(s, LAMBDA y : y # x)
SetHas(s, x) == x \in Range(s)

\* String.prototype.toLowerCase over the alphabet the room names are drawn from.
LowerChar(ch) ==
  CASE ch = "A" -> "a"
    [] ch = "B" -> "b"
    [] ch = "S" -> "s"
    [] ch = "W" -> "w"
    [] OTHER -> ch
toLowerCaseKeep(s) == s
toLowerCase(s) == [i \in DOMAIN s |-> LowerChar(s[i])]

\* Room names handed to the API: the empty string, and names that differ in case.
RoomNames == {<<>>, <<"a">>, <<"A">>, <<"b">>}
\* The names used where one room suffices.
JoinedNames == {<<>>, <<"a">>, <<"A">>}

ClientNum == 1 .. MaxClients
WsId(i) == CASE i = 1 -> "c1" [] i = 2 -> "c2" [] i = 3 -> "c3" [] OTHER -> "c4"
WsIds == {WsId(i) : i \in ClientNum}

\* Mesh node ids, and PeerMeshTransport.peerClientId.
NodeIds == {"n1", "n2"}
peerClientId(remoteId) == "mesh:" \o remoteId

\* The client ids the RoomManager is called with when it is studied on its own.
RoomClientIds == WsIds \cup {peerClientId("n1")}

\* ------------------------------------------------------------- RoomManager
\* A RoomManager is [rooms: Map<lower, Set<clientId>>, memberships: Map<clientId, Set<lower>>].

NewRoomManager == [rooms |-> EmptyMap, memberships |-> EmptyMap]

join(rm, room, clientId) ==
  IF room = <<>> THEN rm
  ELSE
    LET lower == toLowerCase(room)
        bucket == IF MapHas(rm.rooms, lower) THEN rm.rooms[lower] ELSE <<>>
        personal == IF MapHas(rm.memberships, clientId) THEN rm.memberships[clientId] ELSE <<>>
    IN [rooms |-> MapSet(rm.rooms, lower, SetAdd(bucket, clientId)),
        memberships |-> MapSet(rm.memberships, clientId, SetAdd(personal, lower))]

leaveKeepMembership(rm, room, clientId) ==
  LET lower == toLowerCase(room)
  IN [rm EXCEPT !.rooms =
        IF MapHas(rm.rooms, lower)
        THEN LET bucket == SetDelete(rm.rooms[lower], clientId)
             IN IF bucket = <<>> THEN MapDelete(rm.rooms, lower)
                ELSE MapSet(rm.rooms, lower, bucket)
        ELSE rm.rooms]

leaveKeepEmpty(rm, room, clientId) ==
  LET lower == toLowerCase(room)
      rooms1 ==
        IF MapHas(rm.rooms, lower)
        THEN MapSet(rm.rooms, lower, SetDelete(rm.rooms[lower], clientId))
        ELSE rm.rooms
      memberships1 ==
        IF MapHas(rm.memberships, clientId)
        THEN MapSet(rm.memberships, clientId, SetDelete(rm.memberships[clientId], lower))
        ELSE rm.memberships
  IN [rooms |-> rooms1, memberships |-> memberships1]

leave(rm, room, clientId) ==
  LET lower == toLowerCase(room)
      rooms1 ==
        IF MapHas(rm.rooms, lower)
        THEN LET bucket == SetDelete(rm.rooms[lower], clientId)
             IN IF bucket = <<>> THEN MapDelete(rm.rooms, lower)
                ELSE MapSet(rm.rooms, lower, bucket)
        ELSE rm.rooms
      memberships1 ==
        IF MapHas(rm.memberships, clientId)
        THEN LET personal == SetDelete(rm.memberships[clientId], lower)
             IN IF personal = <<>> THEN MapDelete(rm.memberships, clientId)
                ELSE MapSet(rm.memberships, clientId, personal)
        ELSE rm.memberships
  IN [rooms |-> rooms1, memberships |-> memberships1]

\* for (const room of personal) this.leave(room, clientId): each pass deletes the
\* element it is visiting, so the live iteration visits every room of the set once.
RECURSIVE leaveAllLoop(_, _, _, _)
leaveAllLoop(rm, personal, i, clientId) ==
  IF i > Len(personal) THEN rm
  ELSE leaveAllLoop(leave(rm, personal[i], clientId), personal, i + 1, clientId)

leaveAll(rm, clientId) ==
  IF ~MapHas(rm.memberships, clientId) THEN rm
  ELSE leaveAllLoop(rm, rm.memberships[clientId], 1, clientId)

list(rm, room) ==
  LET lower == toLowerCase(room)
  IN IF MapHas(rm.rooms, lower) THEN rm.rooms[lower] ELSE <<>>

roomsFor(rm, clientId) ==
  IF MapHas(rm.memberships, clientId) THEN rm.memberships[clientId] ELSE <<>>

\* ----------------------------------------------------------- PresenceStore
\* A PresenceStore is its clients map: Map<clientId, PresenceSnapshot>.

connect(presence, snap) == MapSet(presence, snap.id, snap)

disconnect(presence, clientId) == MapDelete(presence, clientId)

get(presence, clientId) ==
  IF MapHas(presence, clientId) THEN presence[clientId] ELSE Undefined

\* { ...current.metadata, ...metadata }
Merge(current, metadata) ==
  [k \in DOMAIN current \cup DOMAIN metadata |->
     IF k \in DOMAIN metadata THEN metadata[k] ELSE current[k]]

update(presence, clientId, metadata) ==
  IF ~MapHas(presence, clientId) THEN presence
  ELSE MapSet(presence, clientId,
              [presence[clientId] EXCEPT !.metadata = Merge(@, metadata)])

syncRooms(presence, clientId, rooms) ==
  IF ~MapHas(presence, clientId) THEN presence
  ELSE MapSet(presence, clientId, [presence[clientId] EXCEPT !.rooms = rooms])

\* ------------------------------------------------------------- RealtimeHub
\* A hub is [rooms: RoomManager, presence: PresenceStore, clients: Map<id, TransportClient>,
\* clientIds, log, sent]. clientIds is the keys of clients in insertion order, log is the chronological record of the events the hub emitted
\* ('client:connected', 'client:disconnected', 'message'); sent[id] is the sequence of
\* messages handed to the send closure of client id.
\* A TransportClient is [id, transport, metadata, rooms, conn]; conn names the connection
\* its send and close closures are bound to.

NoTask == 0

Ev(ev, id, type, info, task, k) ==
  [ev |-> ev, id |-> id, type |-> type, info |-> info, task |-> task, k |-> k]

emit(h, entry) == [h EXCEPT !.log = Append(@, entry)]

NewHub ==
  [rooms |-> NewRoomManager, presence |-> EmptyMap, clients |-> EmptyMap,
   clientIds |-> <<>>, log |-> <<>>, sent |-> EmptyMap]

toSnapshot(h, client) ==
  [id |-> client.id, transport |-> client.transport, metadata |-> client.metadata,
   rooms |-> roomsFor(h.rooms, client.id)]

registerClient(h, client) ==
  LET h1 == [h EXCEPT !.clients = MapSet(@, client.id, client),
                      !.clientIds = SetAdd(@, client.id)]
      h2 == [h1 EXCEPT !.presence = connect(@, toSnapshot(h1, client))]
  IN emit(h2, Ev("client:connected", client.id, client.transport, Undefined, NoTask, 0))

\* The hub after each statement of unregisterClient, for a registered client:
\* <<on entry, after rooms.leaveAll, after clients.delete, after presence.disconnect,
\*   after emit('client:disconnected')>>. The k field of the emitted entry is the number
\* of rooms the client was in on entry.
unregisterStepsNoLeaveAll(h, clientId, reason) ==
  LET h1 == h
      h2 == [h1 EXCEPT !.clients = MapDelete(@, clientId),
                       !.clientIds = SetDelete(@, clientId)]
      h3 == [h2 EXCEPT !.presence = disconnect(@, clientId)]
      h4 == emit(h3, Ev("client:disconnected", clientId, Undefined, reason, NoTask,
                        Len(roomsFor(h.rooms, clientId))))
  IN <<h, h1, h2, h3, h4>>

unregisterStepsPresenceFirst(h, clientId, reason) ==
  LET h1 == [h EXCEPT !.presence = disconnect(@, clientId)]
      h2 == [h1 EXCEPT !.clients = MapDelete(@, clientId),
                       !.clientIds = SetDelete(@, clientId)]
      h3 == [h2 EXCEPT !.rooms = leaveAll(@, clientId)]
      h4 == emit(h3, Ev("client:disconnected", clientId, Undefined, reason, NoTask,
                        Len(roomsFor(h.rooms, clientId))))
  IN <<h, h1, h2, h3, h4>>

unregisterSteps(h, clientId, reason) ==
  LET h1 == [h EXCEPT !.rooms = leaveAll(@, clientId)]
      h2 == [h1 EXCEPT !.clients = MapDelete(@, clientId),
                       !.clientIds = SetDelete(@, clientId)]
      h3 == [h2 EXCEPT !.presence = disconnect(@, clientId)]
      h4 == emit(h3, Ev("client:disconnected", clientId, Undefined, reason, NoTask,
                        Len(roomsFor(h.rooms, clientId))))
  IN <<h, h1, h2, h3, h4>>

unregisterClient(h, clientId, reason) ==
  IF ~MapHas(h.clients, clientId) THEN h
  ELSE unregisterSteps(h, clientId, reason)[5]

snapshot(h, clientId) ==
  IF MapHas(h.clients, clientId) THEN toSnapshot(h, h.clients[clientId]) ELSE Undefined

\* joinRoom / leaveRoom after the RoomManager call: refresh client.rooms in place and
\* sync the presence snapshot.
refreshRooms(h, clientId) ==
  LET rooms == roomsFor(h.rooms, clientId)
      h1 == IF MapHas(h.clients, clientId)
            THEN [h EXCEPT !.clients[clientId].rooms = rooms]
            ELSE h
  IN [h1 EXCEPT !.presence = syncRooms(@, clientId, rooms)]

joinRoom(h, room, clientId) ==
  refreshRooms([h EXCEPT !.rooms = join(@, room, clientId)], clientId)

leaveRoom(h, room, clientId) ==
  refreshRooms([h EXCEPT !.rooms = leave(@, room, clientId)], clientId)

\* { ...message, timestamp: Date.now() }
Stamp(message, now) == MapSet(message, "timestamp", now)

\* client.send(message): the message is handed to the connection of client clientId.
clientSend(h, clientId, message) ==
  [h EXCEPT !.sent = MapSet(@, clientId,
                            Append(IF MapHas(@, clientId) THEN @[clientId] ELSE <<>>, message))]

\* send: false (nothing happens) for an unknown client, else client.send of the
\* message stamped with now, the value of Date.now().
send(h, clientId, message, now) ==
  IF ~MapHas(h.clients, clientId) THEN h
  ELSE clientSend(h, clientId, Stamp(message, now))

\* The room option of a broadcast that was left out.
NoRoom == <<Undefined>>

BroadcastOptions(room, except) == [room |-> room, except |-> except]

\* ids.forEach: skip the excepted ids, client.send(payload) on the registered ones.
RECURSIVE broadcastLoop(_, _, _, _, _)
broadcastLoop(h, ids, i, except, payload) ==
  IF i > Len(ids) THEN h
  ELSE broadcastLoop(IF ids[i] \notin except /\ MapHas(h.clients, ids[i])
                     THEN clientSend(h, ids[i], payload)
                     ELSE h,
                     ids, i + 1, except, payload)

\* Array.from(map.keys()): the keys of the Map m in insertion order, order being the
\* sequence in which set and delete have left them.
Keys(m, order) == SelectSeq(order, LAMBDA k : MapHas(m, k))

broadcast(h, message, options, now) ==
  LET payload == Stamp(message, now)
      targetRoom == IF options.room = NoRoom THEN NoRoom ELSE toLowerCase(options.room)
      ids == IF targetRoom # NoRoom /\ targetRoom # <<>>
             THEN list(h.rooms, targetRoom)
             ELSE Keys(h.clients, h.clientIds)
  IN broadcastLoop(h, ids, 1, options.except, payload)

\* message.payload, undefined when the message has none.
payloadOf(message) == IF "payload" \in DOMAIN message THEN message.payload ELSE Undefined

\* receive on a hub no kernel listens to: nothing for an unknown client, else the
\* 'message' event with the message and the registered client.
hubReceive(h, message, clientId) ==
  IF ~MapHas(h.clients, clientId) THEN h
  ELSE emit(h, Ev("message", clientId, message.type, payloadOf(message), NoTask, 0))

\* -------------------------------------------------------------------- state

VARIABLES
  hub,        \* the RealtimeHub of the process under study
  wsConns,    \* the WebSocketConnection objects: number -> [closed, mapped, alive,
              \* heartbeat, ended, pings, pongs, quiet]; mapped says whether
              \* WebSocketTransport.connections still holds the object
  nextClient, \* how many WebSocket connections were accepted so far
  upgradeListeners, \* the 'upgrade' listeners the WebSocketTransport has added to its
              \* http server, one per onStart
  lastCall,   \* the RoomManager method called last on the RoomManager itself
  handlers,          \* RealtimeKernel.handlers: Map<eventType, handler[]>
  wildcardHandlers,  \* RealtimeKernel.wildcardHandlers: handler[]
  tasks,      \* the dispatch calls made so far, in call order
  microQ,     \* the microtask queue: dispatches whose await of a plain value resumes next
  clock,      \* the value Date.now() returns
  lastOut,    \* the outbound call made last: [call, seq, now]
  codec,      \* the frame codec under study: [stage, payload, wire, out]
  stream,     \* a byte stream arriving at a WebSocketConnection in chunks:
              \* [stage, pending, conn, whole]
  life,       \* the RealtimeKernel's transports and its start() and stop() calls
  nodes,      \* the mesh nodes: nodeId -> its PeerMeshTransport, its hub and its timers
  socks       \* the TCP connections dialled so far, with the MeshConnection at each end

NoCall == [call |-> "none", seq |-> 0, now |-> 0]

hubVars == <<hub, wsConns, nextClient, upgradeListeners, lastCall>>
kernelVars == <<handlers, wildcardHandlers, tasks, microQ>>
meshVars == <<nodes, socks>>
outVars == <<clock, lastOut>>
lifeVars == <<life>>
codecVars == <<codec, stream>>

\* The buffer side of a WebSocketConnection after its constructor: buffer is
\* this.buffer, closed the field of the object, and handled the frames handleChunk has
\* taken off the buffer and acted on, each as [opcode, payload].
NewBuffered == [buffer |-> <<>>, closed |-> FALSE, handled |-> <<>>]

\* No byte stream has been chosen yet.
NoStream == [stage |-> "none", pending |-> <<>>, conn |-> NewBuffered, whole |-> <<>>]

\* No frame has been encoded yet.
NoFrame == [stage |-> "none", payload |-> <<>>, wire |-> <<>>, out |-> [frame |-> FALSE]]

vars == <<hubVars, kernelVars, meshVars, outVars, lifeVars, codecVars>>

\* ------------------------------------------------------ WebSocket transport

\* A WebSocketConnection after its constructor, with the default heartbeat interval:
\*   closed, alive  the fields of the object;
\*   heartbeat      "set" while the interval timer runs, "cleared" after clearInterval;
\*   ended          whether socket.end() was called;
\*   pings, pongs   the ping and pong frames written to the socket;
\*   quiet          whether a heartbeat tick has passed and no text or pong frame has
\*                  arrived since the last tick;
\*   socket         the socket the connection listens to, named by the number of the
\*                  first connection created on it;
\*   readable       whether the socket can still emit 'data': none of its 'end', 'close'
\*                  and 'error' events has been emitted;
\*   buffer         this.buffer, as the frames handleChunk has left in it;
\*   frames         how many frames the socket has delivered to handleChunk;
\*   error          whether a write on the socket has failed and its 'error' event is
\*                  due: "tick" when the event runs from process.nextTick before any
\*                  microtask (the write was made by a callback of the event loop),
\*                  "micro" when it runs once the microtask queue is empty (the write
\*                  was made by a microtask), "none" otherwise.
NewWsConnection(s) ==
  [closed |-> FALSE, mapped |-> TRUE, alive |-> TRUE, heartbeat |-> "set", ended |-> FALSE,
   pings |-> 0, pongs |-> 0, quiet |-> FALSE, socket |-> s, readable |-> TRUE,
   buffer |-> <<>>, frames |-> 0, error |-> "none"]

\* The event loop is free to run a callback: no microtask is queued and no socket has
\* its 'error' event due.
Idle == microQ = <<>> /\ \A i \in DOMAIN wsConns : wsConns[i].error = "none"

\* Whether socket.end() was called on the socket s, by any of its connections.
socketEnded(conns, s) == \E i \in DOMAIN conns : conns[i].socket = s /\ conns[i].ended

\* socket.write on the socket s: after socket.end() the write fails and the socket
\* emits 'error' from process.nextTick.
socketWrite(conns, s) ==
  IF ~socketEnded(conns, s) \/ ~conns[s].readable THEN conns
  ELSE [i \in DOMAIN conns |->
          IF conns[i].socket = s THEN [conns[i] EXCEPT !.error = "tick"] ELSE conns[i]]

NewWsClient(i) ==
  [id |-> WsId(i), transport |-> "websocket", metadata |-> EmptyMap, rooms |-> <<>>, conn |-> i]

\* WebSocketTransport.createConnection on a fresh socket, reached from handleUpgrade.
WsCreateConnection ==
  /\ Idle
  /\ nextClient < MaxClients
  /\ LET i == nextClient + 1
     IN /\ nextClient' = i
        /\ wsConns' = MapSet(wsConns, i, NewWsConnection(i))
        /\ hub' = registerClient(hub, NewWsClient(i))
        /\ UNCHANGED <<lastCall, kernelVars, upgradeListeners, meshVars, outVars, lifeVars, codecVars>>

\* The same as an operator on ws = [hub, conns], for the connection number i on the
\* socket s.
createConnection(ws, i, s) ==
  [ws EXCEPT !.conns = MapSet(@, i, NewWsConnection(s)),
             !.hub = registerClient(@, NewWsClient(i))]

\* WebSocketTransport.handleDisconnect, the onClose of a connection.
handleDisconnect(h, clientId) == unregisterClient(h, clientId, Undefined)

\* The WebSocket operators work on ws = [hub, conns].
WsState == [hub |-> hub, conns |-> wsConns]

SetWsState(ws) ==
  /\ hub' = ws.hub
  /\ wsConns' = ws.conns

\* WebSocketConnection.destroy; its onClose is handleDisconnect, which also takes the
\* connection out of WebSocketTransport.connections.
wsDestroy(ws, i) ==
  IF ws.conns[i].closed THEN ws
  ELSE [ws EXCEPT !.conns[i].closed = TRUE,
                  !.conns[i].heartbeat = "cleared",
                  !.conns[i].mapped = FALSE,
                  !.hub = handleDisconnect(@, WsId(i))]

wsCloseOnlyEnds(ws, i) == [ws EXCEPT !.conns[i].ended = TRUE]

\* WebSocketConnection.close: socket.end(), then destroy.
wsClose(ws, i) == wsDestroy([ws EXCEPT !.conns[i].ended = TRUE], i)

RECURSIVE wsSocketEvent(_, _, _)
\* The socket s emits 'end', 'close' or 'error': the listener of every connection
\* created on it runs destroy, in the order the connections were created.
wsSocketEvent(ws, s, i) ==
  IF i > MaxClients THEN ws
  ELSE wsSocketEvent(IF i \in DOMAIN ws.conns /\ ws.conns[i].socket = s
                     THEN [wsDestroy(ws, i) EXCEPT !.conns[i].readable = FALSE,
                                                   !.conns[i].error = "none"]
                     ELSE ws,
                     s, i + 1)

\* The 'end', 'close' or 'error' event of the socket whose first connection is i. The
\* 'error' event of a failed write runs before every other callback, and before the
\* microtasks when the write was made outside them.
WsDestroy(i) ==
  /\ i \in DOMAIN wsConns
  /\ wsConns[i].socket = i
  /\ IF wsConns[i].error = "none" THEN Idle
     ELSE wsConns[i].error = "tick" \/ microQ = <<>>
  /\ SetWsState(wsSocketEvent(WsState, i, 1))
  /\ UNCHANGED <<nextClient, lastCall, kernelVars, upgradeListeners, meshVars, outVars, lifeVars, codecVars>>

\* client.close() of the TransportClient: connection.close().
WsClose(i) ==
  /\ Idle
  /\ i \in DOMAIN wsConns
  /\ SetWsState(wsClose(WsState, i))
  /\ UNCHANGED <<nextClient, lastCall, kernelVars, upgradeListeners, meshVars, outVars, lifeVars, codecVars>>

\* ------------------------------------------------------------ mesh transport
\* Two nodes, each configured with the other's address as its only peer. A node is
\*   [started, starting, resuming, hub, peers, pendingDials, connections,
\*    connectionAddresses, timers, stop]
\* where timers counts the reconnect timers that are set and have not fired, starting
\* says that start() was called and the callback of server.listen has not run yet,
\* resuming that the callback has run and resolved the promise onStart awaits while
\* onStart has not resumed yet, started that the node's server is listening and onStart
\* has resumed, and stop is "pending" from the call of stop() until its promise
\* resolves, "resolved" afterwards, "none" before. server numbers the net.Server
\* this.server holds, the servers onStart created so far, and closing is the number of
\* the server stop() closed. A TCP
\* connection is [dialer, status, bound, ep]: status is "connecting" until the 'connect'
\* or the 'error' listener of dial has run, then "connected" or "failed", bound is the
\* number of the dialled node's server the connection reached (0 before), and ep[n] is
\* the MeshConnection at node n,
\*   [made, handshakeSent, hellos, remoteId, closed, inbox, server],
\* made once createConnection has run at node n, with inbox the lines written by the
\* other end and not yet read, hellos the number of hello lines this end wrote, and
\* server the number of the server that accepted the socket (0 at the dialling end).
\* connections maps a nodeId to the number of the TCP connection whose local
\* MeshConnection is stored.
\* The mesh operators work on ms = [nodes, socks].

Other(n) == CHOOSE m \in NodeIds : m # n

Address(n) == [host |-> n, port |-> "9090"]

addressKey(address) == address.host \o ":" \o address.port

NewEndpoint ==
  [made |-> FALSE, handshakeSent |-> FALSE, hellos |-> 0, remoteId |-> Undefined,
   closed |-> FALSE, inbox |-> <<>>, server |-> 0]

NewNode(n) ==
  [started |-> FALSE, starting |-> FALSE, resuming |-> FALSE, server |-> 0, closing |-> 0, hub |-> NewHub,
   peers |-> MapSet(EmptyMap, addressKey(Address(Other(n))), Address(Other(n))),
   pendingDials |-> <<>>, connections |-> EmptyMap, connectionIds |-> <<>>,
   connectionAddresses |-> EmptyMap,
   timers |-> 0, stop |-> "none"]

MeshInit ==
  /\ nodes = [n \in NodeIds |-> NewNode(n)]
  /\ socks = <<>>

MeshState == [nodes |-> nodes, socks |-> socks]

SetMeshState(ms) ==
  /\ nodes' = ms.nodes
  /\ socks' = ms.socks

\* The address key createConnection was given at node n for connection c: the dialled
\* address at the dialling end, undefined at the accepting end.
keyOf(ms, c, n) ==
  IF ms.socks[c].dialer = n THEN addressKey(Address(Other(n))) ELSE Undefined

HelloLine(nodeId) == [kind |-> "hello", nodeId |-> nodeId]

\* socket.write(line) at node n: the line reaches the other end, where it waits until
\* that end reads it, unless the socket is destroyed at either end.
write(ms, c, n, line) ==
  LET m == Other(n)
  IN IF ~ms.socks[c].ep[n].closed /\ ~ms.socks[c].ep[m].closed
     THEN [ms EXCEPT !.socks[c].ep[m].inbox = Append(@, line)]
     ELSE ms

\* Whether the member of a message named k has the value undefined: NoRoom for a room,
\* Undefined for a member that holds a string; a number is never undefined.
IsUndefined(k, v) ==
  IF k = "room" THEN v = NoRoom
  ELSE IF k \in {"timestamp", "task"} THEN FALSE
  ELSE v = Undefined

\* JSON.stringify(message): the text, given by the set of the members it lists, each a
\* pair of name and value; a member whose value is undefined is left out. The order in
\* which the text lists the members is not kept.
stringify(message) ==
  {<<k, message[k]>> : k \in {x \in DOMAIN message : ~IsUndefined(x, message[x])}}

\* safeParse of a stringified message: the object with the members of the text.
parseMessage(text) ==
  [k \in {member[1] : member \in text} |-> (CHOOSE member \in text : member[1] = k)[2]]

\* `${JSON.stringify({ kind: 'message', message })}\n`
MessageLine(message) == [kind |-> "message", message |-> stringify(message)]

sendHello(ms, c, n) ==
  write([ms EXCEPT !.socks[c].ep[n].handshakeSent = TRUE, !.socks[c].ep[n].hellos = @ + 1],
        c, n, HelloLine(n))

connectionAddressInUse(node, key) ==
  \E remoteId \in DOMAIN node.connectionAddresses : node.connectionAddresses[remoteId] = key

\* dial creates a socket and starts connecting it.
dial(ms, n, address) ==
  LET key == addressKey(address)
  IN IF SetHas(ms.nodes[n].pendingDials, key) THEN ms
     ELSE IF connectionAddressInUse(ms.nodes[n], key) THEN ms
     ELSE [ms EXCEPT !.nodes[n].pendingDials = SetAdd(@, key),
                     !.socks = Append(@, [dialer |-> n, status |-> "connecting", bound |-> 0,
                                          ep |-> [m \in NodeIds |-> NewEndpoint]])]

\* Whether dial(address) at node n would create a socket.
Dials(ms, n, address) ==
  /\ ~SetHas(ms.nodes[n].pendingDials, addressKey(address))
  /\ ~connectionAddressInUse(ms.nodes[n], addressKey(address))

scheduleReconnect(ms, n, address) ==
  IF SetHas(ms.nodes[n].pendingDials, addressKey(address)) THEN ms
  ELSE [ms EXCEPT !.nodes[n].timers = @ + 1]

handlePeerClose(ms, n, remoteId, addressKeyValue) ==
  LET ms1 == IF remoteId # Undefined
             THEN [ms EXCEPT !.nodes[n].connections = MapDelete(@, remoteId),
                             !.nodes[n].connectionIds = SetDelete(@, remoteId),
                             !.nodes[n].connectionAddresses = MapDelete(@, remoteId),
                             !.nodes[n].hub = unregisterClient(@, peerClientId(remoteId),
                                                               "mesh_disconnected")]
             ELSE ms
  IN IF addressKeyValue # Undefined /\ MapHas(ms1.nodes[n].peers, addressKeyValue)
     THEN scheduleReconnect(ms1, n, ms1.nodes[n].peers[addressKeyValue])
     ELSE ms1

\* MeshConnection.close: the socket is destroyed, which the other end sees as a close
\* of its socket once it has read what was written before.
close(ms, c, n) ==
  IF ms.socks[c].ep[n].closed THEN ms
  ELSE handlePeerClose([ms EXCEPT !.socks[c].ep[n].closed = TRUE,
                                  !.socks[c].ep[n].inbox = <<>>],
                       n, ms.socks[c].ep[n].remoteId, keyOf(ms, c, n))

\* MeshConnection.destroy, the listener of the socket's close and error events.
destroy(ms, c, n) ==
  IF ms.socks[c].ep[n].closed THEN ms
  ELSE handlePeerClose([ms EXCEPT !.socks[c].ep[n].closed = TRUE,
                                  !.socks[c].ep[n].inbox = <<>>],
                       n, ms.socks[c].ep[n].remoteId, keyOf(ms, c, n))

NewMeshClient(remoteId, c) ==
  [id |-> peerClientId(remoteId), transport |-> "mesh",
   metadata |-> MapSet(EmptyMap, "nodeId", remoteId), rooms |-> <<>>, conn |-> c]

registerPeer(ms, n, remoteId, c, addressKeyValue) ==
  LET table == ms.nodes[n].connections
  IN IF MapHas(table, remoteId) /\ table[remoteId] # c THEN close(ms, c, n)
     ELSE [ms EXCEPT !.nodes[n].connections = MapSet(@, remoteId, c),
                     !.nodes[n].connectionIds = SetAdd(@, remoteId),
                     !.nodes[n].connectionAddresses =
                        IF addressKeyValue # Undefined THEN MapSet(@, remoteId, addressKeyValue)
                        ELSE @,
                     !.nodes[n].hub = registerClient(@, NewMeshClient(remoteId, c))]

handleRemoteMessage(ms, n, remoteId, message) ==
  [ms EXCEPT !.nodes[n].hub = hubReceive(@, message, peerClientId(remoteId))]

\* processRaw answering every hello with a hello, whatever handshakeSent says.
processRawAlwaysHello(ms, c, n, envelope) ==
  IF envelope.kind = "hello"
  THEN LET ms1 == sendHello(ms, c, n)
       IN IF Truthy(envelope.nodeId)
          THEN registerPeer([ms1 EXCEPT !.socks[c].ep[n].remoteId = envelope.nodeId],
                            n, envelope.nodeId, c, keyOf(ms1, c, n))
          ELSE ms1
  ELSE IF /\ envelope.kind = "message"
          /\ ms.socks[c].ep[n].remoteId # Undefined
          /\ "message" \in DOMAIN envelope       \* an object, which is truthy
       THEN handleRemoteMessage(ms, n, ms.socks[c].ep[n].remoteId,
                                parseMessage(envelope.message))
       ELSE ms

\* MeshConnection.processRaw on the envelope of one line.
processRaw(ms, c, n, envelope) ==
  IF envelope.kind = "hello"
  THEN LET ms1 == IF ~ms.socks[c].ep[n].handshakeSent THEN sendHello(ms, c, n) ELSE ms
       IN IF Truthy(envelope.nodeId)
          THEN registerPeer([ms1 EXCEPT !.socks[c].ep[n].remoteId = envelope.nodeId],
                            n, envelope.nodeId, c, keyOf(ms1, c, n))
          ELSE ms1
  ELSE IF /\ envelope.kind = "message"
          /\ ms.socks[c].ep[n].remoteId # Undefined
          /\ "message" \in DOMAIN envelope       \* an object, which is truthy
       THEN handleRemoteMessage(ms, n, ms.socks[c].ep[n].remoteId,
                                parseMessage(envelope.message))
       ELSE ms

\* PeerMeshTransport.onStart up to its await: the server is created and asked to
\* listen.
MeshStart(n) ==
  /\ ~nodes[n].started
  /\ ~nodes[n].starting
  /\ ~nodes[n].resuming
  /\ nodes' = [nodes EXCEPT ![n].starting = TRUE, ![n].server = @ + 1]
  /\ UNCHANGED <<socks, hubVars, kernelVars, outVars, lifeVars, codecVars>>

\* The callback of server.listen: the server listens and the promise onStart awaits is
\* resolved; onStart resumes in a later turn of the microtask queue.
MeshListening(n) ==
  /\ nodes[n].starting
  /\ nodes' = [nodes EXCEPT ![n].starting = FALSE, ![n].resuming = TRUE]
  /\ UNCHANGED <<socks, hubVars, kernelVars, outVars, lifeVars, codecVars>>

\* onStart resumes after its await and runs ensurePeerDials, also when stop() was
\* called in between and has closed the server. The run has room for limit connections.
MeshResumeUpTo(n, limit) ==
  /\ nodes[n].resuming
  /\ Dials(MeshState, n, Address(Other(n))) => Len(socks) < limit
  /\ SetMeshState(dial([MeshState EXCEPT
                          !.nodes[n].started = nodes[n].server # nodes[n].closing,
                          !.nodes[n].resuming = FALSE],
                        n, Address(Other(n))))
  /\ UNCHANGED <<hubVars, kernelVars, outVars, lifeVars, codecVars>>

\* Whether node m's server is bound: it is from server.listen on, before the callback
\* of listen runs, until stop() closes it.
ServerBound(m) ==
  /\ nodes[m].started \/ nodes[m].starting \/ nodes[m].resuming
  /\ nodes[m].server # nodes[m].closing

\* The dialled socket connects: the dialler's 'connect' listener runs createConnection
\* with autoHello. The other node's server is bound, or it has accepted the connection
\* already. No listener of a node runs between the callback of its server.listen and
\* the resumption of its onStart.
DialConnect(c) ==
  /\ c \in DOMAIN socks
  /\ socks[c].status = "connecting"
  /\ ~nodes[socks[c].dialer].resuming
  /\ LET m == Other(socks[c].dialer)
     IN ServerBound(m) \/ socks[c].ep[m].made
  /\ LET n == socks[c].dialer
         m == Other(n)
         key == addressKey(Address(m))
         made == [MeshState EXCEPT !.nodes[n].pendingDials = SetDelete(@, key),
                                   !.socks[c].status = "connected",
                                   !.socks[c].bound =
                                      IF socks[c].ep[m].made THEN @ ELSE nodes[m].server,
                                   !.socks[c].ep[n].made = TRUE]
     IN SetMeshState(sendHello(made, c, n))
  /\ UNCHANGED <<hubVars, kernelVars, outVars, lifeVars, codecVars>>

\* The 'connection' listener of node n's server runs for a socket the other node
\* dialled: createConnection without autoHello. It can run before or after the 'connect'
\* listener of the dialler, and only on the server the connection reached.
MeshAccept(c, n) ==
  /\ c \in DOMAIN socks
  /\ socks[c].dialer # n
  /\ socks[c].status # "failed"
  /\ ~socks[c].ep[n].made
  /\ nodes[n].started
  /\ ~nodes[n].resuming
  /\ socks[c].status = "connected" => socks[c].bound = nodes[n].server
  /\ socks' = [socks EXCEPT ![c].ep[n].made = TRUE,
                            ![c].ep[n].server = nodes[n].server,
                            ![c].bound = nodes[n].server]
  /\ UNCHANGED <<nodes, hubVars, kernelVars, outVars, lifeVars, codecVars>>

\* The dialled socket fails to connect: the 'error' listener of dial.
DialError(c) ==
  /\ c \in DOMAIN socks
  /\ socks[c].status = "connecting"
  /\ ~nodes[socks[c].dialer].resuming
  /\ ~socks[c].ep[Other(socks[c].dialer)].made
  /\ LET n == socks[c].dialer
         key == addressKey(Address(Other(n)))
     IN SetMeshState(scheduleReconnect([MeshState EXCEPT
                                          !.nodes[n].pendingDials = SetDelete(@, key),
                                          !.socks[c].status = "failed"],
                                       n, Address(Other(n))))
  /\ UNCHANGED <<hubVars, kernelVars, outVars, lifeVars, codecVars>>

\* A reconnect timer fires: dial(address). The run has room for limit connections.
ReconnectTimerUpTo(n, limit) ==
  /\ nodes[n].timers > 0
  /\ ~nodes[n].resuming
  /\ Dials(MeshState, n, Address(Other(n))) => Len(socks) < limit
  /\ SetMeshState(dial([MeshState EXCEPT !.nodes[n].timers = @ - 1], n, Address(Other(n))))
  /\ UNCHANGED <<hubVars, kernelVars, outVars, lifeVars, codecVars>>

RECURSIVE meshHandleChunk(_, _, _, _)
\* MeshConnection.handleChunk on a chunk of complete lines: processRaw on every line,
\* also on those that follow a line which closed the connection.
meshHandleChunk(ms, c, n, lines) ==
  IF lines = <<>> THEN ms
  ELSE meshHandleChunk(processRaw(ms, c, n, Head(lines)), c, n, Tail(lines))

\* The state after the socket of connection c hands node n its next k unread lines.
dataEvent(ms, c, n, k) ==
  meshHandleChunk([ms EXCEPT !.socks[c].ep[n].inbox = SubSeq(@, k + 1, Len(@))],
                  c, n, SubSeq(ms.socks[c].ep[n].inbox, 1, k))

\* The socket's 'data' event at node n with the next k unread lines.
MeshData(c, n, k) ==
  /\ c \in DOMAIN socks
  /\ socks[c].ep[n].made
  /\ ~socks[c].ep[n].closed
  /\ ~nodes[n].resuming
  /\ k \in 1 .. Len(socks[c].ep[n].inbox)
  /\ SetMeshState(dataEvent(MeshState, c, n, k))
  /\ UNCHANGED <<hubVars, kernelVars, outVars, lifeVars, codecVars>>

\* The socket's 'close' event at node n after the other end destroyed the socket.
SocketClose(c, n) ==
  /\ c \in DOMAIN socks
  /\ socks[c].ep[n].made
  /\ ~socks[c].ep[n].closed
  /\ ~nodes[n].resuming
  /\ socks[c].ep[Other(n)].closed
  /\ socks[c].ep[n].inbox = <<>>
  /\ SetMeshState(destroy(MeshState, c, n))
  /\ UNCHANGED <<hubVars, kernelVars, outVars, lifeVars, codecVars>>

\* The 'error' listener dial registered with once: it stays on the socket after the
\* connect and runs first when the connected socket emits 'error'.
dialOnError(ms, c, n) ==
  IF ms.socks[c].dialer # n THEN ms
  ELSE scheduleReconnect([ms EXCEPT !.nodes[n].pendingDials =
                                       SetDelete(@, addressKey(Address(Other(n))))],
                         n, Address(Other(n)))

\* The socket's 'error' event at node n: the connection breaks. At the dialling end
\* the listener of dial runs, then the listener of the MeshConnection.
SocketError(c, n) ==
  /\ c \in DOMAIN socks
  /\ socks[c].ep[n].made
  /\ ~socks[c].ep[n].closed
  /\ ~nodes[n].resuming
  /\ SetMeshState(destroy(dialOnError(MeshState, c, n), c, n))
  /\ UNCHANGED <<hubVars, kernelVars, outVars, lifeVars, codecVars>>

\* hub.getClient(id).close() at node n: the close capability of the mesh client record,
\* close: () => connection.close().
MeshClientClose(n, id) ==
  /\ MapHas(nodes[n].hub.clients, id)
  /\ ~socks[nodes[n].hub.clients[id].conn].ep[n].closed
  /\ SetMeshState(close(MeshState, nodes[n].hub.clients[id].conn, n))
  /\ UNCHANGED <<hubVars, kernelVars, outVars, lifeVars, codecVars>>

\* The process at the other end of connection c writes one more hello line.
ExtraHello(c, n) ==
  /\ c \in DOMAIN socks
  /\ socks[c].ep[n].made
  /\ ~socks[c].ep[n].closed
  /\ socks[c].ep[n].hellos \in 1 .. (MaxHellos - 1)
  /\ SetMeshState(write([MeshState EXCEPT !.socks[c].ep[n].hellos = @ + 1],
                        c, n, HelloLine(n)))
  /\ UNCHANGED <<hubVars, kernelVars, outVars, lifeVars, codecVars>>

MeshResume(n) == MeshResumeUpTo(n, MaxDials)

ReconnectTimer(n) == ReconnectTimerUpTo(n, MaxDials)

MeshNext ==
  \/ \E n \in NodeIds : MeshStart(n)
  \/ \E n \in NodeIds : MeshListening(n)
  \/ \E n \in NodeIds : MeshResume(n)
  \/ \E c \in 1 .. MaxDials : DialConnect(c)
  \/ \E c \in 1 .. MaxDials, n \in NodeIds : MeshAccept(c, n)
  \/ \E c \in 1 .. MaxDials : DialError(c)
  \/ \E n \in NodeIds : ReconnectTimer(n)
  \/ \E c \in 1 .. MaxDials, n \in NodeIds, k \in 1 .. MaxLines : MeshData(c, n, k)
  \/ \E c \in 1 .. MaxDials, n \in NodeIds : SocketClose(c, n)
  \/ \E c \in 1 .. MaxDials, n \in NodeIds : SocketError(c, n)
  \/ \E n \in NodeIds, m \in NodeIds : MeshClientClose(n, peerClientId(m))

\* The mesh in a run of at most MaxBusyDials connections.
MeshBusyNext ==
  \/ \E n \in NodeIds : MeshStart(n)
  \/ \E n \in NodeIds : MeshListening(n)
  \/ \E n \in NodeIds : MeshResumeUpTo(n, MaxBusyDials)
  \/ \E c \in 1 .. MaxDials : DialConnect(c)
  \/ \E c \in 1 .. MaxDials, n \in NodeIds : MeshAccept(c, n)
  \/ \E c \in 1 .. MaxDials : DialError(c)
  \/ \E n \in NodeIds : ReconnectTimerUpTo(n, MaxBusyDials)
  \/ \E c \in 1 .. MaxDials, n \in NodeIds, k \in 1 .. MaxLines : MeshData(c, n, k)
  \/ \E c \in 1 .. MaxDials, n \in NodeIds : SocketClose(c, n)
  \/ \E c \in 1 .. MaxDials, n \in NodeIds : SocketError(c, n)
  \/ \E n \in NodeIds, m \in NodeIds : MeshClientClose(n, peerClientId(m))

RECURSIVE closeAll(_, _, _)
\* for (const connection of this.connections.values()) connection.close();
\* remoteIds is the keys of the table still to visit, in insertion order.
closeAll(ms, n, remoteIds) ==
  IF remoteIds = <<>> THEN ms
  ELSE LET remoteId == Head(remoteIds)
           table == ms.nodes[n].connections
       IN closeAll(IF MapHas(table, remoteId) THEN close(ms, table[remoteId], n) ELSE ms,
                   n, Tail(remoteIds))

\* The sockets accepted by the server stop() closed at node n that are not destroyed,
\* the count that server.close waits to fall to zero before it calls back; the sockets
\* of a server a later start() created do not count. A socket is destroyed by
\* close() and destroy() of its MeshConnection, and by node itself when the other end
\* has closed and everything it wrote has been read, before the socket's 'close'
\* listener runs.
ServerConnections(ms, n) ==
  {c \in DOMAIN ms.socks :
     /\ ms.socks[c].dialer # n
     /\ ms.socks[c].ep[n].made
     /\ ms.socks[c].ep[n].server = ms.nodes[n].closing
     /\ ~ms.socks[c].ep[n].closed
     /\ ~(ms.socks[c].ep[Other(n)].closed /\ ms.socks[c].ep[n].inbox = <<>>)}

\* PeerMeshTransport.onStop up to its await: the connections of the table are closed,
\* the table is cleared and the server is asked to close: it stops listening, and a
\* server that is not listening yet never will.
onStop(ms, n) ==
  [closeAll(ms, n, Keys(ms.nodes[n].connections, ms.nodes[n].connectionIds)) EXCEPT
     !.nodes[n].connections = EmptyMap,
     !.nodes[n].connectionIds = <<>>,
     !.nodes[n].started = FALSE,
     !.nodes[n].starting = FALSE,
     !.nodes[n].closing = ms.nodes[n].server,
     !.nodes[n].stop = "pending"]

\* kernel.stop() of node n: transport.stop() -> onStop.
MeshStop(n) ==
  /\ nodes[n].started \/ nodes[n].starting \/ nodes[n].resuming
  /\ nodes[n].stop = "none"
  /\ Cardinality({m \in NodeIds : nodes[m].stop # "none"}) < MaxStops
  /\ SetMeshState(onStop(MeshState, n))
  /\ UNCHANGED <<hubVars, kernelVars, outVars, lifeVars, codecVars>>

\* server.close calls back once the server has no connection left, in a later turn
\* than the call of stop(): onStop, transport.stop() and kernel.stop() resolve.
MeshStopResolved(n) ==
  /\ nodes[n].stop = "pending"
  /\ ~nodes[n].resuming
  /\ ServerConnections(MeshState, n) = {}
  /\ nodes' = [nodes EXCEPT ![n].stop = "resolved"]
  /\ UNCHANGED <<socks, hubVars, kernelVars, outVars, lifeVars, codecVars>>

MeshStopNext ==
  \/ MeshNext
  \/ \E n \in NodeIds : MeshStop(n)
  \/ \E n \in NodeIds : MeshStopResolved(n)

\* The ids node n's hub has registered at some time: the clients a handler toolkit of
\* that node can have been created for.
EverRegistered(n) ==
  {e.id : e \in {x \in Range(nodes[n].hub.log) : x.ev = "client:connected"}}

\* toolkit.rooms.join / leave in a handler of node n, for the mesh client id.
MeshJoinRoom(n, room, id) ==
  /\ nodes' = [nodes EXCEPT ![n].hub = joinRoom(@, room, id)]
  /\ UNCHANGED <<socks, hubVars, kernelVars, outVars, lifeVars, codecVars>>

MeshLeaveRoom(n, room, id) ==
  /\ nodes' = [nodes EXCEPT ![n].hub = leaveRoom(@, room, id)]
  /\ UNCHANGED <<socks, hubVars, kernelVars, outVars, lifeVars, codecVars>>

MeshRoomsNext ==
  \/ MeshBusyNext
  \/ \E n \in NodeIds, room \in JoinedNames : \E id \in EverRegistered(n) :
       MeshJoinRoom(n, room, id)
  \/ \E n \in NodeIds, room \in JoinedNames : \E id \in EverRegistered(n) :
       MeshLeaveRoom(n, room, id)

MeshRawNext ==
  \/ MeshBusyNext
  \/ \E c \in 1 .. MaxDials, n \in NodeIds : ExtraHello(c, n)

\* A nodeId no node of the mesh has.
ForeignNodeId == "n3"

\* The process at the other end of connection c writes one more hello line, which
\* names another nodeId than its first.
ForeignHello(c, n) ==
  /\ c \in DOMAIN socks
  /\ socks[c].ep[n].made
  /\ ~socks[c].ep[n].closed
  /\ socks[c].ep[n].hellos \in 1 .. (MaxHellos - 1)
  /\ SetMeshState(write([MeshState EXCEPT !.socks[c].ep[n].hellos = @ + 1],
                        c, n, HelloLine(ForeignNodeId)))
  /\ UNCHANGED <<hubVars, kernelVars, outVars, lifeVars, codecVars>>

MeshForeignNext ==
  \/ MeshBusyNext
  \/ \E c \in 1 .. MaxDials, n \in NodeIds : ForeignHello(c, n)

\* ------------------------------------------------- hub and room operations

AcceptedIds == {WsId(i) : i \in 1 .. nextClient}

\* hub.joinRoom(room, id) / hub.leaveRoom(room, id), as the handler toolkit calls them
\* for the id of a client that was registered when its message was dispatched.
HubJoinRoom(room, id) ==
  /\ hub' = joinRoom(hub, room, id)
  /\ UNCHANGED <<wsConns, nextClient, lastCall, kernelVars, upgradeListeners, meshVars, outVars, lifeVars, codecVars>>

HubLeaveRoom(room, id) ==
  /\ hub' = leaveRoom(hub, room, id)
  /\ UNCHANGED <<wsConns, nextClient, lastCall, kernelVars, upgradeListeners, meshVars, outVars, lifeVars, codecVars>>

\* The RoomManager called directly (kernel.rooms hands out the hub's RoomManager).
RoomJoin(room, id) ==
  /\ hub' = [hub EXCEPT !.rooms = join(@, room, id)]
  /\ lastCall' = "join"
  /\ UNCHANGED <<wsConns, nextClient, kernelVars, upgradeListeners, meshVars, outVars, lifeVars, codecVars>>

RoomLeave(room, id) ==
  /\ hub' = [hub EXCEPT !.rooms = leave(@, room, id)]
  /\ lastCall' = "leave"
  /\ UNCHANGED <<wsConns, nextClient, kernelVars, upgradeListeners, meshVars, outVars, lifeVars, codecVars>>

RoomLeaveAll(id) ==
  /\ hub' = [hub EXCEPT !.rooms = leaveAll(@, id)]
  /\ lastCall' = "leaveAll"
  /\ UNCHANGED <<wsConns, nextClient, kernelVars, upgradeListeners, meshVars, outVars, lifeVars, codecVars>>

\* The transports a kernel is given.
Transports == {"websocket", "mesh"}

\* The RealtimeKernel after its constructor, as far as start and stop go:
\*   started, transports  the fields of the kernel;
\*   invoked[t]       how often transport t's start(hub) was invoked since the last
\*                    stop() call (or since construction);
\*   startCalled      whether start() was called since the last stop() call;
\*   pendingStarts    the start() calls awaiting Promise.all, each with the transports
\*                    whose start promise has not resolved yet;
\*   pendingStops     the number of stop() calls awaiting Promise.all;
\*   calls            the number of start() and stop() calls made;
\*   bindFailed       for each start() call awaiting, the transports whose server, the
\*                    one onStart created for that call, emitted 'error' on listen;
\*   rejected         the number of start() calls whose promise rejected.
NewKernel ==
  [started |-> FALSE, transports |-> <<>>, invoked |-> [t \in Transports |-> 0],
   startCalled |-> FALSE, pendingStarts |-> <<>>, pendingStops |-> 0, calls |-> 0,
   bindFailed |-> <<>>, rejected |-> 0]

KernelInit ==
  /\ handlers = EmptyMap
  /\ wildcardHandlers = <<>>
  /\ tasks = <<>>
  /\ microQ = <<>>

HubInit ==
  /\ hub = NewHub
  /\ wsConns = EmptyMap
  /\ nextClient = 0
  /\ upgradeListeners = 0
  /\ lastCall = "none"
  /\ KernelInit
  /\ MeshInit
  /\ clock = 1
  /\ lastOut = NoCall
  /\ life = NewKernel
  /\ codec = NoFrame
  /\ stream = NoStream

HubNext ==
  \/ WsCreateConnection
  \/ \E i \in ClientNum : WsDestroy(i)
  \/ \E room \in RoomNames, id \in AcceptedIds : HubJoinRoom(room, id)
  \/ \E room \in RoomNames, id \in AcceptedIds : HubLeaveRoom(room, id)

SpecHub == HubInit /\ [][HubNext]_vars

\* The RoomManager on its own, under every sequence of join, leave and leaveAll.
RoomsNext ==
  \/ \E room \in RoomNames, id \in RoomClientIds : RoomJoin(room, id)
  \/ \E room \in RoomNames, id \in RoomClientIds : RoomLeave(room, id)
  \/ \E id \in RoomClientIds : RoomLeaveAll(id)

SpecRooms == HubInit /\ [][RoomsNext]_vars

\* Metadata handed to presence.update.
MetadataUpdates == {MapSet(EmptyMap, "name", "x")}

\* presence.update(id, metadata): toolkit.presence.update, or kernel.presence.update.
PresenceUpdate(id, metadata) ==
  /\ hub' = [hub EXCEPT !.presence = update(@, id, metadata)]
  /\ UNCHANGED <<wsConns, nextClient, lastCall, kernelVars, upgradeListeners, meshVars, outVars, lifeVars, codecVars>>

\* The snapshot and the room list handed to the PresenceStore by a caller of
\* kernel.presence: a snapshot for the id of the last connection the transport accepts.
PresenceSnapshots ==
  {[id |-> WsId(MaxClients), transport |-> "websocket", metadata |-> EmptyMap,
    rooms |-> <<>>]}

PresenceRooms == {<<<<"z", "z">>>>}

\* kernel.presence.connect(snapshot), called on the store itself.
PresenceConnect(snap) ==
  /\ hub' = [hub EXCEPT !.presence = connect(@, snap)]
  /\ UNCHANGED <<wsConns, nextClient, lastCall, kernelVars, upgradeListeners, meshVars, outVars, lifeVars, codecVars>>

\* kernel.presence.disconnect(id), called on the store itself.
PresenceDisconnect(id) ==
  /\ hub' = [hub EXCEPT !.presence = disconnect(@, id)]
  /\ UNCHANGED <<wsConns, nextClient, lastCall, kernelVars, upgradeListeners, meshVars, outVars, lifeVars, codecVars>>

\* kernel.presence.syncRooms(id, rooms), called on the store itself.
PresenceSyncRooms(id, rooms) ==
  /\ hub' = [hub EXCEPT !.presence = syncRooms(@, id, rooms)]
  /\ UNCHANGED <<wsConns, nextClient, lastCall, kernelVars, upgradeListeners, meshVars, outVars, lifeVars, codecVars>>

\* The hub used through the toolkit and through kernel.rooms and kernel.presence.
AccessNext ==
  \/ HubNext
  \/ \E room \in JoinedNames, id \in AcceptedIds : RoomJoin(room, id)
  \/ \E room \in JoinedNames, id \in AcceptedIds : RoomLeave(room, id)
  \/ \E id \in AcceptedIds : RoomLeaveAll(id)
  \/ \E id \in AcceptedIds, metadata \in MetadataUpdates : PresenceUpdate(id, metadata)
  \/ \E snap \in PresenceSnapshots : PresenceConnect(snap)
  \/ \E id \in WsIds : PresenceDisconnect(id)
  \/ \E id \in WsIds, rooms \in PresenceRooms : PresenceSyncRooms(id, rooms)

SpecAccess == HubInit /\ [][AccessNext]_vars

\* The mesh of two honest nodes, and the mesh with a peer that repeats its hello.
SpecMesh == HubInit /\ [][MeshNext]_vars

SpecMeshRaw == HubInit /\ [][MeshRawNext]_vars

\* The mesh of two nodes whose peers write a second hello line with another nodeId.
SpecMeshForeign == HubInit /\ [][MeshForeignNext]_vars

\* The mesh of two honest nodes whose handlers join and leave rooms.
SpecMeshRooms == HubInit /\ [][MeshRoomsNext]_vars

\* The mesh of two honest nodes whose kernels are stopped.
SpecMeshStop == HubInit /\ [][MeshStopNext]_vars

\* ----------------------------------------------------------- RealtimeKernel
\* A handler is named by its registration number. What a handler does when it is
\* invoked is an input: it returns a plain value, returns a promise that settles
\* later, throws, or is an async function that throws and so returns a promise that is
\* rejected already; the thrown or rejected value is an Error or undefined/null.

\* WebSocket connections accepted while the dispatch loop is studied.
KernelClients == 1

EventTypes == {"a", "*"}
MsgTypes == {"a", "b"}
AckTokens == {Undefined, "t"}
Messages == [type : MsgTypes, ack : AckTokens]

Behaviours ==
  {"return", "promise", "throwError", "throwUndefined", "asyncThrowError",
   "asyncThrowUndefined"}
Outcomes == {"resolve", "rejectError", "rejectUndefined"}
Thrown(b) ==
  IF b \in {"throwError", "rejectError", "asyncThrowError"} THEN "Error" ELSE Undefined

\* How the promise an async handler returned has settled when the handler throws.
Rejected(b) == IF b = "asyncThrowError" THEN "rejectError" ELSE "rejectUndefined"

NumHandlers ==
  Len(wildcardHandlers) + (IF MapHas(handlers, "a") THEN Len(handlers["a"]) ELSE 0)

\* kernel.on(eventType, handler) with a string event type, while fewer than limit
\* handlers are registered.
OnUpTo(eventType, limit) ==
  /\ Idle
  /\ NumHandlers < limit
  /\ LET hid == NumHandlers + 1
         bucket == IF MapHas(handlers, eventType) THEN handlers[eventType] ELSE <<>>
     IN IF eventType = "*"
        THEN /\ wildcardHandlers' = Append(wildcardHandlers, hid)
             /\ UNCHANGED handlers
        ELSE /\ handlers' = MapSet(handlers, eventType, Append(bucket, hid))
             /\ UNCHANGED wildcardHandlers
  /\ UNCHANGED <<hubVars, tasks, microQ, meshVars, outVars, lifeVars, codecVars>>

On(eventType) == OnUpTo(eventType, MaxHandlers)

\* dispatch: [...(this.handlers.get(message.type) ?? []), ...this.wildcardHandlers]
selectHandlers(type) ==
  (IF MapHas(handlers, type) THEN handlers[type] ELSE <<>>) \o wildcardHandlers

\* Outbound messages; task names the dispatch that sent the message.
AckMessage(ack, t) == [type |-> "system:ack", info |-> ack, task |-> t]
ErrorMessage(t) == [type |-> "system:error", info |-> "Internal handler error", task |-> t]

\* Reading (error as Error).message throws a TypeError when error is undefined or null.
messageReadThrows(error) == error = Undefined

\* The kernel state the dispatch operators work on is
\* ks = [hub, conns, tasks, microQ, now], conns being the WebSocket connections and now
\* the value of Date.now() while they run.
\* A task is one call of dispatch: id and msg are its arguments, hs the handler list it
\* built, nh the number of handlers registered when it was called, k the position of
\* the handler it invoked last, state one of
\*   "micro"    awaiting a plain value or a settled promise: the continuation is in
\*              the microtask queue,
\*   "promise"  awaiting a pending promise,
\*   "done"     the dispatch promise resolved,
\*   "failed"   the dispatch promise rejected,
\* outcome how the awaited value has settled while state is "micro", failures the
\* number of its handlers that threw or rejected so far, and overlap the
\* earlier dispatches of the same client that had not returned at a moment when this
\* one invoked a handler or sent its acknowledgement.

Finished(task) == task.state \in {"done", "failed"}

Unfinished(ks, t) ==
  {u \in 1 .. (t - 1) : ks.tasks[u].id = ks.tasks[t].id /\ ~Finished(ks.tasks[u])}

note(ks, t) == [ks EXCEPT !.tasks[t].overlap = @ \cup Unfinished(ks, t)]

\* hub.send(client.id, message) from dispatch; the send closure of a WebSocket client
\* writes the message to the socket of its connection.
dispatchSend(ks, t, message) ==
  LET id == ks.tasks[t].id
      sent == [ks EXCEPT !.hub = send(@, id, message, ks.now)]
  IN IF /\ MapHas(ks.hub.clients, id)
        /\ ks.hub.clients[id].transport = "websocket"
        /\ ks.hub.clients[id].conn \in DOMAIN ks.conns
     THEN [sent EXCEPT !.conns = socketWrite(@, @[ks.hub.clients[id].conn].socket)]
     ELSE sent

\* if (message.ack) hub.send(system:ack), and dispatch returns.
sendAckAndReturn(ks, t) ==
  LET task == ks.tasks[t]
      ks1 == IF Truthy(task.msg.ack)
             THEN dispatchSend(note(ks, t), t, AckMessage(task.msg.ack, t))
             ELSE ks
  IN [ks1 EXCEPT !.tasks[t].state = "done"]

\* An exception leaves dispatch: the promise it returned rejects.
rejectDispatch(ks, t) == [ks EXCEPT !.tasks[t].state = "failed"]

\* The for loop of dispatch from the handler at position k on, up to its next await
\* that suspends; beh[k] is what that handler does when invoked now. afterFailure is
\* the catch block.
RECURSIVE runHandlers(_, _, _, _)
RECURSIVE afterFailure(_, _, _, _, _)
runHandlers(ks, t, k, beh) ==
  IF k > Len(ks.tasks[t].hs) THEN sendAckAndReturn(ks, t)
  ELSE
    LET invoked == note([ks EXCEPT !.tasks[t].k = k], t)
    IN CASE beh[k] = "return" ->
              [invoked EXCEPT !.tasks[t].state = "micro", !.microQ = Append(@, t)]
         [] beh[k] = "promise" ->
              [invoked EXCEPT !.tasks[t].state = "promise"]
         [] beh[k] \in {"asyncThrowError", "asyncThrowUndefined"} ->
              [invoked EXCEPT !.tasks[t].state = "micro",
                              !.tasks[t].outcome = Rejected(beh[k]),
                              !.microQ = Append(@, t)]
         [] OTHER -> afterFailure(invoked, t, k, Thrown(beh[k]), beh)

afterFailure(ks, t, k, error, beh) ==
  LET failed == [ks EXCEPT !.tasks[t].failures = @ + 1]
  IN IF messageReadThrows(error) THEN rejectDispatch(failed, t)
     ELSE runHandlers(dispatchSend(failed, t, ErrorMessage(t)), t, k + 1, beh)

dispatch(ks, message, clientId, beh) ==
  LET t == Len(ks.tasks) + 1
      hs == selectHandlers(message.type)
      ks1 == [ks EXCEPT !.tasks = Append(@, [id |-> clientId, msg |-> message, hs |-> hs,
                                             nh |-> NumHandlers, k |-> 0,
                                             state |-> "done", outcome |-> "resolve",
                                             failures |-> 0,
                                             overlap |-> {}])]
  IN IF hs = <<>> THEN sendAckAndReturn(ks1, t)
     ELSE IF ~MapHas(ks1.hub.clients, clientId)       \* snapshot(client.id) is undefined
          THEN ks1
          ELSE runHandlers(ks1, t, 1, beh)

\* Hub.receive: emit 'message' for a registered client; the kernel's listener is dispatch.
\* receive without the lookup of the client.
receiveUnchecked(ks, message, clientId, beh) ==
  dispatch([ks EXCEPT !.hub = emit(@, Ev("message", clientId, message.type, message.ack,
                                         Len(ks.tasks) + 1, 0))],
           message, clientId, beh)

receive(ks, message, clientId, beh) ==
  IF ~MapHas(ks.hub.clients, clientId) THEN ks
  ELSE dispatch([ks EXCEPT !.hub = emit(@, Ev("message", clientId, message.type, message.ack,
                                             Len(ks.tasks) + 1, 0))],
                message, clientId, beh)

\* WebSocketConnection.handleChunk over a chunk of complete text frames, each carrying
\* a message: onMessage -> handleRawPayload -> hub.receive, frame after frame.
RECURSIVE handleChunk(_, _, _, _, _)
handleChunk(ks, clientId, msgs, j, behs) ==
  IF j > Len(msgs) THEN ks
  ELSE handleChunk(receive(ks, msgs[j], clientId, behs[j]), clientId, msgs, j + 1, behs)

KernelState ==
  [hub |-> hub, conns |-> wsConns, tasks |-> tasks, microQ |-> microQ, now |-> clock]

SetKernelState(ks) ==
  /\ hub' = ks.hub
  /\ wsConns' = ks.conns
  /\ tasks' = ks.tasks
  /\ microQ' = ks.microQ

BehaviourChoices == [1 .. NumHandlers -> Behaviours]

\* The choices of a behaviour for the positions first .. last of a handler list, the
\* ones a step can invoke; the other positions carry "return".
BehaviourChoicesAt(first, last) ==
  {[k \in 1 .. NumHandlers |-> IF k \in first .. last THEN f[k] ELSE "return"] :
     f \in [first .. last -> Behaviours]}

\* The choices for the dispatches of a chunk of messages, one per message.
RECURSIVE ChunkChoices(_)
ChunkChoices(msgs) ==
  IF msgs = <<>> THEN {<<>>}
  ELSE {<<beh>> \o rest :
          beh \in BehaviourChoicesAt(1, Len(selectHandlers(Head(msgs).type))),
          rest \in ChunkChoices(Tail(msgs))}

\* The choices for the dispatch the first microtask resumes.
ResumeChoices ==
  IF microQ = <<>> THEN {}
  ELSE BehaviourChoicesAt(tasks[Head(microQ)].k + 1, Len(tasks[Head(microQ)].hs))

\* The socket's 'data' event of connection i.
WsData(i, msgs, behs) ==
  /\ Idle
  /\ i \in DOMAIN wsConns
  /\ ~wsConns[i].closed
  /\ Len(tasks) + Len(msgs) <= MaxMsgs
  /\ SetKernelState(handleChunk([KernelState EXCEPT !.conns[i].alive = TRUE,
                                                    !.conns[i].quiet = FALSE,
                                                    !.conns[i].frames = @ + Len(msgs)],
                                WsId(i), msgs, 1, behs))
  /\ UNCHANGED <<nextClient, lastCall, handlers, wildcardHandlers, upgradeListeners, meshVars, outVars, lifeVars, codecVars>>

\* The 'error' event of a write that fails inside a microtask runs once the microtask
\* queue is empty.
inMicrotask(ks) ==
  [ks EXCEPT !.conns = [i \in DOMAIN @ |->
                          IF @[i].error = "tick" THEN [@[i] EXCEPT !.error = "micro"]
                          ELSE @[i]]]

\* The first microtask: a dispatch resumes after its await, in the loop when the
\* awaited value is fulfilled and in the catch block when it is rejected. The
\* callbacks of process.nextTick run before it.
RunMicrotask(beh) ==
  /\ microQ # <<>>
  /\ \A i \in DOMAIN wsConns : wsConns[i].error # "tick"
  /\ LET t == Head(microQ)
         resumed == [KernelState EXCEPT !.microQ = Tail(microQ),
                                        !.tasks[t].outcome = "resolve"]
     IN SetKernelState(inMicrotask(
                         IF tasks[t].outcome = "resolve"
                         THEN runHandlers(resumed, t, tasks[t].k + 1, beh)
                         ELSE afterFailure(resumed, t, tasks[t].k, Thrown(tasks[t].outcome),
                                           beh)))
  /\ UNCHANGED <<nextClient, lastCall, handlers, wildcardHandlers, upgradeListeners, meshVars, outVars, lifeVars, codecVars>>

\* The promise a handler returned settles: the continuation of the dispatch awaiting
\* it joins the microtask queue.
SettlePromise(t, outcome) ==
  /\ t \in DOMAIN tasks
  /\ tasks[t].state = "promise"
  /\ tasks' = [tasks EXCEPT ![t].state = "micro", ![t].outcome = outcome]
  /\ microQ' = Append(microQ, t)
  /\ UNCHANGED <<hub, wsConns, nextClient, lastCall, handlers, wildcardHandlers, upgradeListeners, meshVars, outVars, lifeVars, codecVars>>

KernelNext ==
  \/ (nextClient < KernelClients /\ WsCreateConnection)
  \/ \E i \in ClientNum : WsDestroy(i)
  \/ \E eventType \in EventTypes : On(eventType)
  \/ \E i \in ClientNum, n \in 1 .. (MaxMsgs - Len(tasks)) :
       \E msgs \in [1 .. n -> Messages] : \E behs \in ChunkChoices(msgs) :
         WsData(i, msgs, behs)
  \/ \E beh \in ResumeChoices : RunMicrotask(beh)
  \/ \E t \in 1 .. MaxMsgs, outcome \in Outcomes : SettlePromise(t, outcome)

SpecKernel == HubInit /\ [][KernelNext]_vars

\* ----------------------------------------------------------- outbound calls
\* The messages callers hand to the outbound paths: with or without a room field, with
\* or without a timestamp of their own (CallerTime, a value Date.now() never returns).

CallerTime == 0

OutRooms == {NoRoom, <<"A">>}

OutMessages ==
  {[type |-> "chat", info |-> "hello", room |-> r] : r \in OutRooms}
    \cup {[type |-> "chat", info |-> "hello", room |-> r, timestamp |-> CallerTime] : r \in OutRooms}

\* The handler toolkit of client id (createToolkit(context), id = context.id).
toolkitReply(h, id, message, now) == send(h, id, message, now)

toolkitSend(h, targetId, message, now) == send(h, targetId, message, now)

\* toolkit.broadcast(message) without a filter.
toolkitBroadcast(h, message, now) == broadcast(h, message, BroadcastOptions(NoRoom, {}), now)

toolkitRoomsBroadcastToSelf(h, id, message, roomName, exceptSelf, except, now) ==
  LET targetRoom == IF roomName # NoRoom THEN roomName ELSE message.room
  IN IF targetRoom = NoRoom \/ targetRoom = <<>> THEN h
     ELSE broadcast(h, message, BroadcastOptions(targetRoom, except), now)

\* toolkit.rooms.broadcast(message, roomName, {exceptSelf, except}).
toolkitRoomsBroadcast(h, id, message, roomName, exceptSelf, except, now) ==
  LET targetRoom == IF roomName # NoRoom THEN roomName ELSE message.room
  IN IF targetRoom = NoRoom \/ targetRoom = <<>> THEN h
     ELSE broadcast(h, message,
                    BroadcastOptions(targetRoom, IF exceptSelf THEN except \cup {id} ELSE except),
                    now)

\* An outbound call is made: lastOut notes which, its number and the time.
Outbound(h, name) ==
  /\ lastOut.seq < MaxOut
  /\ hub' = h
  /\ lastOut' = [call |-> name, seq |-> lastOut.seq + 1, now |-> clock]
  /\ UNCHANGED <<wsConns, nextClient, lastCall, kernelVars, upgradeListeners, meshVars, clock, lifeVars, codecVars>>

HubSend(clientId, message) == Outbound(send(hub, clientId, message, clock), "send")

HubBroadcast(message, options) ==
  Outbound(broadcast(hub, message, options, clock), "broadcast")

ToolkitReply(id, message) ==
  Outbound(toolkitReply(hub, id, message, clock), "toolkit.reply")

ToolkitSend(id, targetId, message) ==
  Outbound(toolkitSend(hub, targetId, message, clock), "toolkit.send")

ToolkitBroadcast(id, message) ==
  Outbound(toolkitBroadcast(hub, message, clock), "toolkit.broadcast")

ToolkitRoomsBroadcast(id, message, roomName, exceptSelf, except) ==
  Outbound(toolkitRoomsBroadcast(hub, id, message, roomName, exceptSelf, except, clock),
           "toolkit.rooms.broadcast")

\* Time passes.
Tick ==
  /\ clock < MaxTime
  /\ clock' = clock + 1
  /\ UNCHANGED <<hubVars, kernelVars, meshVars, lastOut, lifeVars, codecVars>>

OptionRooms == RoomNames \cup {NoRoom}

OutNext ==
  \/ WsCreateConnection
  \/ \E i \in ClientNum : WsDestroy(i)
  \/ \E room \in JoinedNames, id \in AcceptedIds : HubJoinRoom(room, id)
  \/ \E room \in JoinedNames, id \in AcceptedIds : HubLeaveRoom(room, id)
  \/ Tick
  \/ \E id \in AcceptedIds, message \in OutMessages : HubSend(id, message)
  \/ \E message \in OutMessages, room \in OptionRooms, except \in SUBSET AcceptedIds :
       HubBroadcast(message, BroadcastOptions(room, except))
  \/ \E id \in AcceptedIds, message \in OutMessages : ToolkitReply(id, message)
  \/ \E id \in AcceptedIds, targetId \in AcceptedIds, message \in OutMessages :
       ToolkitSend(id, targetId, message)
  \/ \E id \in AcceptedIds, message \in OutMessages : ToolkitBroadcast(id, message)
  \/ \E id \in AcceptedIds, message \in OutMessages, roomName \in OptionRooms,
        exceptSelf \in BOOLEAN, except \in SUBSET AcceptedIds :
       ToolkitRoomsBroadcast(id, message, roomName, exceptSelf, except)

SpecOut == HubInit /\ [][OutNext]_vars

\* MeshConnection.send on the connection c of node n: nothing before the handshake
\* has completed or after the connection closed, else the message is written out.
connectionSend(ms, n, c, message) ==
  LET ep == ms.socks[c].ep[n]
  IN IF ep.remoteId = Undefined \/ ep.closed THEN ms
     ELSE write([ms EXCEPT !.nodes[n].hub = clientSend(@, peerClientId(ep.remoteId), message)],
                c, n, MessageLine(message))

\* PeerMeshTransport.broadcast: connection.send(message) on every stored connection.
RECURSIVE meshBroadcastLoop(_, _, _, _)
meshBroadcastLoop(ms, n, remoteIds, message) ==
  IF remoteIds = <<>> THEN ms
  ELSE meshBroadcastLoop(connectionSend(ms, n, ms.nodes[n].connections[Head(remoteIds)],
                                        message),
                         n, Tail(remoteIds), message)

meshBroadcast(ms, n, message) ==
  meshBroadcastLoop(ms, n, Keys(ms.nodes[n].connections, ms.nodes[n].connectionIds), message)

MeshBroadcast(n, message) ==
  /\ lastOut.seq < MaxOut
  /\ SetMeshState(meshBroadcast(MeshState, n, message))
  /\ lastOut' = [call |-> "mesh.broadcast", seq |-> lastOut.seq + 1, now |-> clock]
  /\ UNCHANGED <<hubVars, kernelVars, clock, lifeVars, codecVars>>

MeshOutNext ==
  \/ MeshBusyNext
  \/ \E n \in NodeIds, message \in OutMessages : MeshBroadcast(n, message)

\* The mesh of two honest nodes whose application uses the transport's broadcast.
SpecMeshOut == HubInit /\ [][MeshOutNext]_vars

MeshMessages == {[type |-> "chat", payload |-> "hello"], [type |-> "move", payload |-> "bye"]}

\* The send closure of a mesh client: (message) => connection.send(message).
meshClientSend(ms, n, clientId, message) ==
  connectionSend(ms, n, ms.nodes[n].hub.clients[clientId].conn, message)

\* hub.send(clientId, message) on the hub of node n.
meshHubSend(ms, n, clientId, message, now) ==
  IF ~MapHas(ms.nodes[n].hub.clients, clientId) THEN ms
  ELSE meshClientSend(ms, n, clientId, Stamp(message, now))

\* The application of node n sends a message to the client of the other node.
MeshHubSend(n, message) ==
  /\ lastOut.seq < MaxOut
  /\ SetMeshState(meshHubSend(MeshState, n, peerClientId(Other(n)), message, clock))
  /\ lastOut' = [call |-> "mesh.send", seq |-> lastOut.seq + 1, now |-> clock]
  /\ UNCHANGED <<hubVars, kernelVars, clock, lifeVars, codecVars>>

MeshMsgNext ==
  \/ MeshBusyNext
  \/ \E n \in NodeIds, message \in MeshMessages : MeshHubSend(n, message)

\* The mesh of two honest nodes whose applications send each other messages.
SpecMeshMsg == HubInit /\ [][MeshMsgNext]_vars

\* The process at end n of connection c writes a message line without regard to the
\* handshake: the line can reach the other end before any hello of n does.
EarlyMessage(c, n, message) ==
  /\ lastOut.seq < MaxOut
  /\ c \in DOMAIN socks
  /\ socks[c].ep[n].made
  /\ ~socks[c].ep[n].closed
  /\ SetMeshState(write(MeshState, c, n, MessageLine(message)))
  /\ lastOut' = [call |-> "raw.message", seq |-> lastOut.seq + 1, now |-> clock]
  /\ UNCHANGED <<hubVars, kernelVars, clock, lifeVars, codecVars>>

MeshEarlyNext ==
  \/ MeshBusyNext
  \/ \E c \in 1 .. MaxDials, n \in NodeIds, message \in MeshMessages : EarlyMessage(c, n, message)

\* The mesh of two nodes whose peers may write messages before their hello.
SpecMeshEarly == HubInit /\ [][MeshEarlyNext]_vars

\* --------------------------------------------------------- kernel lifecycle

\* BaseTransport.start(hub), as the kernel invokes it: onStart begins.
transportStart(k, t) == [k EXCEPT !.invoked[t] = @ + 1]

RECURSIVE startAll(_, _, _)
\* this.transports.map((transport) => transport.start(this.hub)), from index i on.
startAll(k, ts, i) ==
  IF i > Len(ts) THEN k ELSE startAll(transportStart(k, ts[i]), ts, i + 1)

\* kernel.useTransport(transport).
useTransport(k, t) ==
  LET pushed == [k EXCEPT !.transports = Append(@, t)]
  IN IF k.started THEN transportStart(pushed, t) ELSE pushed

\* kernel.start() up to its await: nothing when started is set, else every transport
\* of the list is started and the call waits for all of them.
start(k) ==
  LET called == [k EXCEPT !.calls = @ + 1, !.startCalled = TRUE]
  IN IF k.started THEN called
     ELSE [startAll(called, k.transports, 1) EXCEPT
             !.pendingStarts = Append(@, Range(k.transports)),
             !.bindFailed = Append(@, {})]

\* kernel.start() after its await.
startResume(k, p) ==
  [k EXCEPT !.started = TRUE,
            !.pendingStarts = SubSeq(@, 1, p - 1) \o SubSeq(@, p + 1, Len(@)),
            !.bindFailed = SubSeq(@, 1, p - 1) \o SubSeq(@, p + 1, Len(@))]

\* kernel.stop() up to its await: every transport's stop() is invoked.
stop(k) ==
  [k EXCEPT !.calls = @ + 1, !.startCalled = FALSE,
            !.invoked = [t \in Transports |-> 0], !.pendingStops = @ + 1]

\* kernel.stop() after its await.
stopResume(k) == [k EXCEPT !.started = FALSE, !.pendingStops = @ - 1]

UseTransport(t) ==
  /\ Len(life.transports) < MaxTransports
  /\ ~SetHas(life.transports, t)
  /\ life' = useTransport(life, t)
  /\ UNCHANGED <<hubVars, kernelVars, meshVars, outVars, codecVars>>

Start ==
  /\ life.calls < MaxCalls
  /\ life' = start(life)
  /\ UNCHANGED <<hubVars, kernelVars, meshVars, outVars, codecVars>>

\* The promise of transport t's start(hub) resolves for the start() call p: the server
\* onStart created for that call listens.
TransportStarted(p, t) ==
  /\ p \in DOMAIN life.pendingStarts
  /\ t \in life.pendingStarts[p]
  /\ t \notin life.bindFailed[p]
  /\ life' = [life EXCEPT !.pendingStarts[p] = @ \ {t}]
  /\ UNCHANGED <<hubVars, kernelVars, meshVars, outVars, codecVars>>

StartResume(p) ==
  /\ p \in DOMAIN life.pendingStarts
  /\ life.pendingStarts[p] = {}
  /\ life' = startResume(life, p)
  /\ UNCHANGED <<hubVars, kernelVars, meshVars, outVars, codecVars>>

Stop ==
  /\ life.calls < MaxCalls
  /\ life' = stop(life)
  /\ UNCHANGED <<hubVars, kernelVars, meshVars, outVars, codecVars>>

StopResume ==
  /\ life.pendingStops > 0
  /\ life' = stopResume(life)
  /\ UNCHANGED <<hubVars, kernelVars, meshVars, outVars, codecVars>>

LifeNext ==
  \/ \E t \in Transports : UseTransport(t)
  \/ Start
  \/ \E p \in 1 .. MaxCalls, t \in Transports : TransportStarted(p, t)
  \/ \E p \in 1 .. MaxCalls : StartResume(p)
  \/ Stop
  \/ StopResume

SpecLife == HubInit /\ [][LifeNext]_vars

\* kernel.start() when the promise of one transport.start(hub) rejects: Promise.all
\* rejects, the await throws and the call ends without setting started.
startReject(k, p) ==
  [k EXCEPT !.rejected = @ + 1,
            !.pendingStarts = SubSeq(@, 1, p - 1) \o SubSeq(@, p + 1, Len(@)),
            !.bindFailed = SubSeq(@, 1, p - 1) \o SubSeq(@, p + 1, Len(@))]

\* onStart of transport t throws (createServer or a subclass's onStart): the promise of
\* BaseTransport.start rejects.
OnStartThrows(p, t) ==
  /\ p \in DOMAIN life.pendingStarts
  /\ t \in life.pendingStarts[p]
  /\ t \notin life.bindFailed[p]
  /\ life' = startReject(life, p)
  /\ UNCHANGED <<hubVars, kernelVars, meshVars, outVars, codecVars>>

\* The server transport t created for the start() call p cannot bind its port:
\* listen(port, host, resolve) never calls resolve and the server emits 'error', for
\* which onStart registered no listener and which settles no promise. The servers of
\* other start() calls are not touched.
ListenFails(p, t) ==
  /\ p \in DOMAIN life.pendingStarts
  /\ t \in life.pendingStarts[p]
  /\ t \notin life.bindFailed[p]
  /\ life' = [life EXCEPT !.bindFailed[p] = @ \cup {t}]
  /\ UNCHANGED <<hubVars, kernelVars, meshVars, outVars, codecVars>>

StartFailNext ==
  \/ LifeNext
  \/ \E p \in 1 .. MaxCalls, t \in Transports : OnStartThrows(p, t)
  \/ \E p \in 1 .. MaxCalls, t \in Transports : ListenFails(p, t)

SpecStartFail == HubInit /\ [][StartFailNext]_vars

\* ------------------------------------- WebSocket frames, heartbeat and stop

\* The value JSON.parse gives for {"type":5}: a number, which is no string.
NumberType == "number 5"

IsString(v) == v # Undefined /\ v # NumberType

\* The text payloads a client sends.
RawPayloads ==
  {"{", "null", "7", "{}", "{\"type\":\"\"}", "{\"type\":5}", "{\"type\":\"a\"}",
   "{\"type\":\"a\",\"ack\":\"t\"}"}

\* safeParse: JSON.parse, undefined when it throws. A parsed value is given by its
\* kind and, for an object, by the fields the transport and the kernel read.
safeParse(raw) ==
  CASE raw = "{" -> [kind |-> "undefined"]
    [] raw = "null" -> [kind |-> "null"]
    [] raw = "7" -> [kind |-> "number"]
    [] raw = "{}" -> [kind |-> "object", type |-> Undefined, ack |-> Undefined]
    [] raw = "{\"type\":\"\"}" -> [kind |-> "object", type |-> "", ack |-> Undefined]
    [] raw = "{\"type\":5}" -> [kind |-> "object", type |-> NumberType, ack |-> Undefined]
    [] raw = "{\"type\":\"a\"}" -> [kind |-> "object", type |-> "a", ack |-> Undefined]
    [] raw = "{\"type\":\"a\",\"ack\":\"t\"}" -> [kind |-> "object", type |-> "a", ack |-> "t"]

\* if (value): undefined and null are falsy, an object and the number 7 are not.
Falsy(value) == value.kind \in {"undefined", "null"}

\* value.field of a parsed value that is not undefined or null.
Field(value, field) ==
  IF value.kind = "object" THEN value[field] ELSE Undefined

\* The message object as hub.receive and dispatch read it.
AsMessage(value) == [type |-> Field(value, "type"), ack |-> Field(value, "ack")]

\* Whether handleRawPayload hands the payload to hub.receive:
\* !(!message || !message.type).
Accepted(raw) == ~Falsy(safeParse(raw)) /\ Truthy(Field(safeParse(raw), "type"))

\* WebSocketTransport.handleRawPayload.
handleRawPayload(ks, clientId, raw, beh) ==
  IF ~Accepted(raw) THEN ks ELSE receive(ks, AsMessage(safeParse(raw)), clientId, beh)

pingNeverCloses(ws, i) ==
  [ws EXCEPT !.conns = socketWrite([@ EXCEPT ![i].alive = FALSE, ![i].pings = @ + 1],
                                   @[i].socket)]

\* WebSocketConnection.ping, the heartbeat tick.
ping(ws, i) ==
  IF ~ws.conns[i].alive THEN wsClose(ws, i)
  ELSE [ws EXCEPT !.conns = socketWrite([@ EXCEPT ![i].alive = FALSE, ![i].pings = @ + 1],
                                        @[i].socket)]

\* The heartbeat interval of connection i elapses.
WsPing(i) ==
  /\ Idle
  /\ i \in DOMAIN wsConns
  /\ wsConns[i].heartbeat = "set"
  /\ wsConns[i].alive => wsConns[i].pings < MaxPings
  /\ SetWsState([ping(WsState, i) EXCEPT !.conns[i].quiet = TRUE])
  /\ UNCHANGED <<nextClient, lastCall, kernelVars, upgradeListeners, meshVars, outVars, lifeVars, codecVars>>

\* The opcodes of the frames that carry no text: close, ping, pong and binary.
ControlOpcodes == {8, 9, 10, 2}

\* The payloads of the text frames a peer writes: one that is no JSON, one whose type is
\* a number, and one with a string type and an ack token.
WsPayloads == {"{", "{\"type\":5}", "{\"type\":\"a\",\"ack\":\"t\"}"}

\* The frames a peer writes: a text frame (opcode 1) with its payload, or another frame.
WsFrames == [opcode : {1}, raw : WsPayloads] \cup [opcode : ControlOpcodes, raw : {""}]

\* What the handlers invoked by the dispatch t do: behs[t] when the event at hand has
\* a choice for it, plain returns otherwise.
BehaviourOf(behs, t) ==
  IF t \in DOMAIN behs THEN behs[t] ELSE [k \in 1 .. NumHandlers |-> "return"]

RECURSIVE wsFrames(_, _, _, _, _)
\* The while loop of WebSocketConnection.handleChunk at connection i, from frame j of the
\* complete frames in its buffer; behs[t] is what the handlers invoked by the dispatch
\* t do, the dispatches being numbered in call order. A close frame returns from the
\* loop and leaves the frames behind it in the buffer.
wsFrames(st, i, frames, j, behs) ==
  IF j > Len(frames) THEN [st EXCEPT !.conns[i].buffer = <<>>]
  ELSE CASE frames[j].opcode = 1 ->
              wsFrames(handleRawPayload([st EXCEPT !.conns[i].alive = TRUE,
                                                   !.conns[i].quiet = FALSE],
                                        WsId(i), frames[j].raw,
                                        BehaviourOf(behs, Len(st.tasks) + 1)),
                       i, frames, j + 1, behs)
         [] frames[j].opcode = 8 ->
              [wsClose(st, i) EXCEPT !.conns[i].buffer = SubSeq(frames, j + 1, Len(frames))]
         [] frames[j].opcode = 9 ->
              wsFrames([st EXCEPT !.conns = socketWrite([@ EXCEPT ![i].pongs = @ + 1],
                                                        @[i].socket)],
                       i, frames, j + 1, behs)
         [] frames[j].opcode = 10 ->
              wsFrames([st EXCEPT !.conns[i].alive = TRUE, !.conns[i].quiet = FALSE],
                       i, frames, j + 1, behs)
         [] OTHER -> wsFrames(st, i, frames, j + 1, behs)

\* WebSocketConnection.handleChunk with a chunk of complete frames.
wsHandleChunk(st, i, chunk, behs) ==
  wsFrames([st EXCEPT !.conns[i].frames = @ + Len(chunk)], i, st.conns[i].buffer \o chunk,
           1, behs)

RECURSIVE wsSocketData(_, _, _, _, _)
\* The socket s emits 'data': the listener of every connection created on it runs
\* handleChunk, in the order the connections were created.
wsSocketData(st, s, i, chunk, behs) ==
  IF i > MaxClients THEN st
  ELSE wsSocketData(IF i \in DOMAIN st.conns /\ st.conns[i].socket = s
                    THEN wsHandleChunk(st, i, chunk, behs)
                    ELSE st,
                    s, i + 1, chunk, behs)

\* The choices for the dispatches a 'data' event of the socket s starts, one per
\* dispatch: every connection of the socket hands each of its text frames to a dispatch
\* of its own, whose handlers are invoked apart from those of the others.
DispatchChoices(s, chunk) ==
  LET started == wsSocketData(KernelState, s, 1, chunk, <<>>).tasks
      new == (Len(tasks) + 1) .. Len(started)
  IN IF Len(started) > MaxMsgs THEN {}
     ELSE {behs \in [new -> BehaviourChoicesAt(1, NumHandlers)] :
             \A t \in new : behs[t] \in BehaviourChoicesAt(1, Len(started[t].hs))}

\* The 'data' event of the socket whose first connection is i, with a chunk of complete
\* frames.
WsChunk(i, chunk, behs) ==
  /\ Idle
  /\ i \in DOMAIN wsConns
  /\ wsConns[i].socket = i
  /\ wsConns[i].readable
  /\ wsConns[i].frames + Len(chunk) <= MaxStream
  /\ LET st == wsSocketData(KernelState, i, 1, chunk, behs)
     IN /\ Len(st.tasks) <= MaxMsgs
        /\ SetKernelState(st)
  /\ UNCHANGED <<nextClient, lastCall, handlers, wildcardHandlers, upgradeListeners, meshVars, outVars, lifeVars, codecVars>>

RECURSIVE wsCloseAll(_, _)
\* for (const connection of this.connections.values()) connection.close();
wsCloseAll(ws, i) ==
  IF i > MaxClients THEN ws
  ELSE wsCloseAll(IF i \in DOMAIN ws.conns /\ ws.conns[i].mapped THEN wsClose(ws, i) ELSE ws,
                  i + 1)

\* WebSocketTransport.onStop up to its await.
wsOnStop(ws) ==
  LET closed == wsCloseAll(ws, 1)
  IN [closed EXCEPT !.conns = [i \in DOMAIN closed.conns |->
                                 [closed.conns[i] EXCEPT !.mapped = FALSE]]]

WsStop ==
  /\ Idle
  /\ SetWsState(wsOnStop(WsState))
  /\ UNCHANGED <<nextClient, lastCall, kernelVars, upgradeListeners, meshVars, outVars, lifeVars, codecVars>>

\* WebSocketTransport.onStart with options.server: one more 'upgrade' listener on the
\* server, which onStop leaves in place.
WsStart ==
  /\ Idle
  /\ upgradeListeners < MaxStarts
  /\ upgradeListeners' = upgradeListeners + 1
  /\ UNCHANGED <<hub, wsConns, nextClient, lastCall, kernelVars, meshVars, outVars, lifeVars, codecVars>>

\* ---------------------------------------------------------- upgrade handshake
\* An upgrade request is [upgrade, url, key]: the Upgrade header and the URL as
\* sequences of characters, the Sec-WebSocket-Key header as a string; a header that is
\* absent is NoHeader (undefined). The socket of a request is [written, destroyed].

NoHeader == <<Undefined>>

Websocket == <<"w", "e", "b", "s", "o", "c", "k", "e", "t">>

UpgradeHeaders ==
  {NoHeader, Websocket, <<"W", "e", "b", "S", "o", "c", "k", "e", "t">>, <<"h", "2", "c">>}

Urls == {<<"/">>, <<"/", "w", "s">>, <<"/", "w", "s", "/", "x">>, <<"/", "x">>}

\* options.path: no filter, or /ws.
Paths == {NoHeader, <<"/", "w", "s">>}

SecWebSocketKeys == {Undefined, "", "dGhlIHNhbXBsZSBub25jZQ=="}

Requests == [upgrade : UpgradeHeaders, url : Urls, key : SecWebSocketKeys]

\* String.prototype.startsWith.
startsWith(str, prefix) ==
  Len(prefix) <= Len(str) /\ SubSeq(str, 1, Len(prefix)) = prefix

\* WebSocketTransport.handleUpgrade for the request req on the socket s; i is the number
\* the connection gets if one is created.
handleUpgrade(ws, i, s, req, path) ==
  LET rejected == [ws |-> ws, socket |-> [written |-> FALSE, destroyed |-> TRUE]]
  IN IF req.upgrade = NoHeader \/ toLowerCase(req.upgrade) # Websocket THEN rejected
     ELSE IF path # NoHeader /\ path # <<>> /\ req.url # <<>> /\ ~startsWith(req.url, path)
          THEN rejected
     ELSE IF req.key = Undefined THEN rejected       \* typeof key !== 'string'
     ELSE [ws |-> createConnection(ws, i, s),
           socket |-> [written |-> TRUE, destroyed |-> FALSE]]

\* The path filter of the transport under study.
ConfiguredPath == <<"/", "w", "s">>

RECURSIVE upgradeEvent(_, _, _, _, _)
\* The 'upgrade' listeners of the server, k of them still to run, on the request req
\* and the socket s; r is [ws, made]: the state and the connections made so far.
upgradeEvent(r, s, req, path, k) ==
  IF k = 0 THEN r
  ELSE LET run == handleUpgrade(r.ws, s + r.made, s, req, path)
       IN upgradeEvent([ws |-> run.ws,
                        made |-> IF run.socket.written THEN r.made + 1 ELSE r.made],
                       s, req, path, k - 1)

\* The http server's 'upgrade' event on a fresh socket: every listener onStart has
\* added runs handleUpgrade.
WsUpgrade(req) ==
  /\ Idle
  /\ upgradeListeners > 0
  /\ nextClient + upgradeListeners <= MaxClients
  /\ LET r == upgradeEvent([ws |-> WsState, made |-> 0], nextClient + 1, req,
                           ConfiguredPath, upgradeListeners)
     IN /\ SetWsState(r.ws)
        /\ nextClient' = nextClient + r.made
  /\ UNCHANGED <<lastCall, kernelVars, upgradeListeners, meshVars, outVars, lifeVars, codecVars>>

\* The requests handleUpgrade accepts under the configured path.
AcceptedRequests ==
  {req \in Requests :
     handleUpgrade([hub |-> NewHub, conns |-> EmptyMap], 1, 1, req, ConfiguredPath).socket.written}

WsNext ==
  \/ WsStart
  \/ \E req \in AcceptedRequests : nextClient < WsSockets /\ WsUpgrade(req)
  \/ \E eventType \in EventTypes : OnUpTo(eventType, WsHandlers)
  \/ \E i \in ClientNum : WsDestroy(i)
  \/ \E i \in ClientNum : WsClose(i)
  \/ \E i \in ClientNum : WsPing(i)
  \/ \E i \in {s \in DOMAIN wsConns : Idle /\ wsConns[s].socket = s /\ wsConns[s].readable} :
       \E n \in 1 .. (MaxStream - wsConns[i].frames) :
         \E chunk \in [1 .. n -> WsFrames] :
           \E behs \in DispatchChoices(i, chunk) : WsChunk(i, chunk, behs)
  \/ \E beh \in ResumeChoices : RunMicrotask(beh)
  \/ \E t \in 1 .. MaxMsgs, outcome \in Outcomes : SettlePromise(t, outcome)
  \/ WsStop

SpecWs == HubInit /\ [][WsNext]_vars

UpgradeNext ==
  \/ WsStart
  \/ \E req \in Requests : WsUpgrade(req)
  \/ \E i \in ClientNum : WsDestroy(i)
  \/ \E room \in RoomNames, id \in AcceptedIds : HubJoinRoom(room, id)
  \/ \E room \in RoomNames, id \in AcceptedIds : HubLeaveRoom(room, id)

SpecUpgrade == HubInit /\ [][UpgradeNext]_vars

\* ----------------------------------------------------------------- frame codec
\* A Buffer is a sequence of bytes (0 .. 255), indexed from 1.

\* The largest payload length the 7-bit field carries, and the first length that needs
\* the 64-bit field.
Len7 == 125
Len64 == 65536

\* Payload lengths around the two thresholds of the length encoding.
PayloadLengths == {0, 1, Len7, Len7 + 1, Len7 + 2, Len64 - 1, Len64, Len64 + 1}

\* The payloads: every byte FillBytes[k] + i * step (mod 256) at offset i.
FillBytes == {0, 1, 127, 128, 255}
FillSteps == {0, 1}

Payload(n, fill, step) == [i \in 1 .. n |-> (fill + (i - 1) * step) % 256]

\* Byte k (0 = least significant) of the unsigned integer n.
RECURSIVE ByteOf(_, _)
ByteOf(n, k) == IF k = 0 THEN n % 256 ELSE ByteOf(n \div 256, k - 1)

\* buffer.writeUInt16BE / writeBigUInt64BE: the bytes written, most significant first.
BigEndian(n, width) == [j \in 1 .. width |-> ByteOf(n, width - j)]

\* buffer.readUInt16BE / readBigUInt64BE at offset (0-based), width bytes.
RECURSIVE ReadBE(_, _, _)
ReadBE(buffer, offset, width) ==
  IF width = 0 THEN 0
  ELSE ReadBE(buffer, offset, width - 1) * 256 + buffer[offset + width]

\* Bit k of byte b, and the bitwise operators on bytes.
Bit(b, k) == (b \div (2 ^ k)) % 2

RECURSIVE BitOp(_, _, _, _)
BitOp(op, a, b, k) ==
  IF k = 8 THEN 0
  ELSE LET x == Bit(a, k)
           y == Bit(b, k)
           r == CASE op = "and" -> x * y
                  [] op = "or" -> IF x + y > 0 THEN 1 ELSE 0
                  [] op = "xor" -> (x + y) % 2
       IN r * (2 ^ k) + BitOp(op, a, b, k + 1)

And(a, b) == BitOp("and", a, b, 0)
Or(a, b) == BitOp("or", a, b, 0)
Xor(a, b) == BitOp("xor", a, b, 0)

\* The header encodeFrame writes for a payload of the given length.
frameHeader(payloadLength, opcode) ==
  <<Or(128, And(opcode, 15))>> \o
    (IF payloadLength < 126 THEN <<payloadLength>>
     ELSE IF payloadLength < 65536 THEN <<126>> \o BigEndian(payloadLength, 2)
     ELSE <<127>> \o BigEndian(payloadLength, 8))

encodeFrameShortHeader(payload, opcode) ==
  <<Or(128, And(opcode, 15))>> \o
    (IF Len(payload) <= 126 THEN <<Len(payload)>>
     ELSE IF Len(payload) < 65536 THEN <<126>> \o BigEndian(Len(payload), 2)
     ELSE <<127>> \o BigEndian(Len(payload), 8)) \o payload

encodeFrame(payload, opcode) == frameHeader(Len(payload), opcode) \o payload

\* decodeFrame: [frame |-> FALSE] is null.
decodeFrame(buffer) ==
  IF Len(buffer) < 2 THEN [frame |-> FALSE]
  ELSE
    LET opcode == And(buffer[1], 15)
        masked == And(buffer[2], 128) # 0
        short == And(buffer[2], 127)
        width == IF short = 126 THEN 2 ELSE IF short = 127 THEN 8 ELSE 0
    IN IF Len(buffer) < 2 + width THEN [frame |-> FALSE]
       ELSE
         LET payloadLength == IF width = 0 THEN short ELSE ReadBE(buffer, 2, width)
             maskLength == IF masked THEN 4 ELSE 0
             offset == 2 + width + maskLength
         IN IF Len(buffer) < offset + payloadLength THEN [frame |-> FALSE]
            ELSE [frame |-> TRUE,
                  opcode |-> opcode,
                  payload |-> [i \in 1 .. payloadLength |->
                                 IF masked
                                 THEN Xor(buffer[offset + i],
                                          buffer[2 + width + ((i - 1) % 4) + 1])
                                 ELSE buffer[offset + i]],
                  length |-> payloadLength,
                  bytes |-> offset + payloadLength]

\* connection.send: a text frame is encoded for the socket.
Encode(n, fill, step) ==
  /\ codec' = [stage |-> "encoded", payload |-> Payload(n, fill, step),
               wire |-> encodeFrame(Payload(n, fill, step), 1), out |-> [frame |-> FALSE]]
  /\ UNCHANGED <<hubVars, kernelVars, meshVars, outVars, lifeVars, stream>>

\* The frame is read back from the wire.
Decode ==
  /\ codec.stage = "encoded"
  /\ codec' = [codec EXCEPT !.stage = "decoded", !.out = decodeFrame(codec.wire)]
  /\ UNCHANGED <<hubVars, kernelVars, meshVars, outVars, lifeVars, stream>>

CodecNext ==
  \/ \E n \in PayloadLengths, fill \in FillBytes, step \in FillSteps : Encode(n, fill, step)
  \/ Decode

SpecCodec == HubInit /\ [][CodecNext]_vars

\* ------------------------------------------------------------ chunked streams
\* The bytes a client writes for one frame: FIN and the opcode, the 7-bit length with the
\* mask bit, the masking key and the payload XORed with it; without a key, the frame as
\* encodeFrame writes it.
NoMask == <<>>

clientFrame(payload, opcode, mask) ==
  IF mask = NoMask THEN encodeFrame(payload, opcode)
  ELSE <<Or(128, And(opcode, 15)), Or(128, Len(payload))>> \o mask \o
         [i \in 1 .. Len(payload) |-> Xor(payload[i], mask[((i - 1) % 4) + 1])]

StreamOpcodes == {1, 8, 9}
StreamPayloads == {<<>>, <<7, 200>>}
StreamMasks == {NoMask, <<1, 2, 3, 255>>}

\* The frames of a stream: text, close and ping frames, masked or not, with short
\* payloads, and one text frame whose length needs the 16-bit field.
StreamFrames ==
  [opcode : StreamOpcodes, payload : StreamPayloads, mask : StreamMasks]
    \cup {[opcode |-> 1, payload |-> Payload(Len7 + 1, 65, 1), mask |-> NoMask]}

RECURSIVE Wire(_)
\* The bytes of a sequence of frames, one frame after the other.
Wire(frames) ==
  IF frames = <<>> THEN <<>>
  ELSE clientFrame(Head(frames).payload, Head(frames).opcode, Head(frames).mask)
         \o Wire(Tail(frames))

RECURSIVE drainBuffer(_)
\* The while loop of handleChunk: decode a frame, take its bytes off the buffer and act
\* on it; stop when the buffer is empty or holds no complete frame, and return on a
\* close frame, after close().
drainBuffer(conn) ==
  IF conn.buffer = <<>> THEN conn
  ELSE LET decoded == decodeFrame(conn.buffer)
       IN IF ~decoded.frame THEN conn
          ELSE LET taken == [conn EXCEPT
                               !.buffer = SubSeq(@, decoded.bytes + 1, Len(@)),
                               !.handled = Append(@, [opcode |-> decoded.opcode,
                                                      payload |-> decoded.payload])]
               IN IF decoded.opcode = 8 THEN [taken EXCEPT !.closed = TRUE]
                  ELSE drainBuffer(taken)

\* WebSocketConnection.handleChunk on the bytes of one 'data' event.
handleChunkBytes(conn, chunk) == drainBuffer([conn EXCEPT !.buffer = @ \o chunk])

\* A client writes a stream of complete frames to a new connection.
StreamStart(frames) ==
  /\ stream.stage = "none"
  /\ stream' = [stage |-> "arriving", pending |-> Wire(frames), conn |-> NewBuffered,
                whole |-> handleChunkBytes(NewBuffered, Wire(frames)).handled]
  /\ UNCHANGED <<hubVars, kernelVars, meshVars, outVars, lifeVars, codec>>

\* The socket's 'data' event with the next k bytes of the stream.
StreamChunk(k) ==
  /\ stream.stage = "arriving"
  /\ k \in 1 .. Len(stream.pending)
  /\ stream' = [stream EXCEPT
                  !.pending = SubSeq(@, k + 1, Len(@)),
                  !.conn = handleChunkBytes(@, SubSeq(stream.pending, 1, k))]
  /\ UNCHANGED <<hubVars, kernelVars, meshVars, outVars, lifeVars, codec>>

\* The longest stream, in bytes.
MaxStreamBytes == MaxFrames * (Len7 + 5)

ChunksNext ==
  \/ \E n \in 1 .. MaxFrames : \E frames \in [1 .. n -> StreamFrames] : StreamStart(frames)
  \/ \E k \in 1 .. MaxStreamBytes : StreamChunk(k)

\* Streams of complete frames arriving in chunks of every size.
SpecChunks == HubInit /\ [][ChunksNext]_vars

\* -------------------------------------------------- WebRTC signaling bridge
\* Two bridges are attached to the kernel, one per namespace, the second with
\* autoJoinRooms. A handler of a bridge runs for the message of a registered client
\* with the toolkit of that client; what it does is an operator on the hub.

Bridges ==
  {[namespace |-> "webrtc", autoJoinRooms |-> FALSE],
   [namespace |-> "rtc", autoJoinRooms |-> TRUE]}

Signals == {"offer", "answer", "candidate", "bye"}

\* `${this.namespace}:offer` and the like.
channelOf(bridge, signal) == bridge.namespace \o ":" \o signal

\* A room member of a payload that is a number, not a string.
NumberRoom == <<NumberType>>

\* message.payload of a signal: an object with the members the bridge reads (and a
\* from of the sender's own making), or no object at all.
SignalTargets == {Undefined, "", NumberType} \cup WsIds
SignalRooms == {NoRoom, <<>>, NumberRoom, <<"A">>}
SignalData ==
  [kind : {"object"}, target : SignalTargets, room : SignalRooms,
   description : {Undefined, "", "sdp"}, offer : {Undefined, "sdp-offer"},
   candidate : {Undefined, "ice"}, metadata : {Undefined}, from : {"c2"}]
    \cup [kind : {"undefined", "string"}, target : {Undefined}, room : {NoRoom},
          description : {Undefined}, offer : {Undefined}, candidate : {Undefined},
          metadata : {Undefined}, from : {Undefined}]

\* The payloads the clients of a run send: with or without each member.
SignalInputs ==
  {data \in SignalData :
     /\ data.target \in {Undefined} \cup WsIds
     /\ data.room \in {NoRoom, <<"A">>}
     /\ data.description # ""
     /\ data.offer = Undefined}

SignalMessage(bridge, signal, data) == [type |-> channelOf(bridge, signal), payload |-> data]

NullPayload == [kind |-> "null"]

\* normalizePayload(message) ?? {}
EmptyPayload ==
  [kind |-> "object", candidate |-> Undefined, description |-> Undefined,
   target |-> Undefined, room |-> NoRoom, metadata |-> Undefined]

\* payload?.member
Member(payload, member) == IF payload.kind = "null" THEN Undefined ELSE payload[member]

normalizePayload(message) ==
  LET data == message.payload
  IN IF data.kind # "object" THEN NullPayload
     ELSE [kind |-> "object",
           candidate |-> data.candidate,
           description |-> IF data.description # Undefined THEN data.description
                           ELSE data.offer,
           target |-> IF IsString(data.target) THEN data.target ELSE Undefined,
           room |-> IF data.room # NoRoom /\ data.room # NumberRoom THEN data.room
                    ELSE NoRoom,
           metadata |-> data.metadata]

ErrorReply(bridge, reason) ==
  [type |-> bridge.namespace \o ":error", payload |-> [reason |-> reason]]

Envelope(payload, id, channel) ==
  [type |-> channel,
   payload |-> [from |-> id, room |-> payload.room, target |-> payload.target,
                description |-> payload.description, candidate |-> payload.candidate,
                metadata |-> payload.metadata]]

forwardRoomFirst(h, bridge, payload, id, channel, now) ==
  IF payload.room # NoRoom /\ payload.room # <<>>
  THEN toolkitRoomsBroadcast(h, id, Envelope(payload, id, channel), payload.room,
                             TRUE, {}, now)
  ELSE IF Truthy(payload.target)
  THEN toolkitSend(h, payload.target, Envelope(payload, id, channel), now)
  ELSE toolkitReply(h, id, ErrorReply(bridge, "TARGET_OR_ROOM_REQUIRED"), now)

\* WebRTCSignalingBridge.forward with the toolkit of client id.
forward(h, bridge, payload, id, channel, now) ==
  IF Truthy(payload.target)
  THEN toolkitSend(h, payload.target, Envelope(payload, id, channel), now)
  ELSE IF payload.room # NoRoom /\ payload.room # <<>>
  THEN toolkitRoomsBroadcast(h, id, Envelope(payload, id, channel), payload.room,
                             TRUE, {}, now)
  ELSE toolkitReply(h, id, ErrorReply(bridge, "TARGET_OR_ROOM_REQUIRED"), now)

onOfferNoJoin(h, bridge, message, id, now) ==
  LET payload == normalizePayload(message)
  IN IF ~Truthy(Member(payload, "description"))
     THEN toolkitReply(h, id, ErrorReply(bridge, "INVALID_OFFER"), now)
     ELSE forward(h, bridge, payload, id, channelOf(bridge, "offer"), now)

\* The handler of the offer channel.
onOffer(h, bridge, message, id, now) ==
  LET payload == normalizePayload(message)
  IN IF ~Truthy(Member(payload, "description"))
     THEN toolkitReply(h, id, ErrorReply(bridge, "INVALID_OFFER"), now)
     ELSE forward(IF bridge.autoJoinRooms /\ payload.room # NoRoom /\ payload.room # <<>>
                  THEN joinRoom(h, payload.room, id)
                  ELSE h,
                  bridge, payload, id, channelOf(bridge, "offer"), now)

onAnswerUnchecked(h, bridge, message, id, now) ==
  LET normalized == normalizePayload(message)
      payload == IF normalized.kind = "null" THEN EmptyPayload ELSE normalized
  IN forward(h, bridge, payload, id, channelOf(bridge, "answer"), now)

\* The handler of the answer channel.
onAnswer(h, bridge, message, id, now) ==
  LET payload == normalizePayload(message)
  IN IF ~Truthy(Member(payload, "description"))
     THEN toolkitReply(h, id, ErrorReply(bridge, "INVALID_ANSWER"), now)
     ELSE forward(h, bridge, payload, id, channelOf(bridge, "answer"), now)

\* The handler of the candidate channel.
onCandidate(h, bridge, message, id, now) ==
  LET payload == normalizePayload(message)
  IN IF ~Truthy(Member(payload, "candidate"))
     THEN toolkitReply(h, id, ErrorReply(bridge, "INVALID_CANDIDATE"), now)
     ELSE forward(h, bridge, payload, id, channelOf(bridge, "candidate"), now)

\* The handler of the bye channel.
onBye(h, bridge, message, id, now) ==
  LET normalized == normalizePayload(message)
      payload == IF normalized.kind = "null" THEN EmptyPayload ELSE normalized
  IN forward(h, bridge, payload, id, channelOf(bridge, "bye"), now)

\* The handler attach registered for the channel of the signal.
onSignal(h, bridge, signal, data, id, now) ==
  LET message == SignalMessage(bridge, signal, data)
  IN CASE signal = "offer" -> onOffer(h, bridge, message, id, now)
       [] signal = "answer" -> onAnswer(h, bridge, message, id, now)
       [] signal = "candidate" -> onCandidate(h, bridge, message, id, now)
       [] OTHER -> onBye(h, bridge, message, id, now)

\* A registered client sends a signal and the kernel dispatches it to the bridge.
Signal(bridge, signal, data, id) ==
  /\ lastOut.seq < MaxSignals
  /\ MapHas(hub.clients, id)
  /\ hub' = onSignal(hub, bridge, signal, data, id, clock)
  /\ lastOut' = [call |-> channelOf(bridge, signal), seq |-> lastOut.seq + 1, now |-> clock]
  /\ UNCHANGED <<wsConns, nextClient, lastCall, kernelVars, upgradeListeners, meshVars, clock, lifeVars, codecVars>>

SignalNext ==
  \/ WsCreateConnection
  \/ \E i \in ClientNum : WsDestroy(i)
  \/ \E id \in AcceptedIds : HubJoinRoom(<<"a">>, id)
  \/ \E id \in AcceptedIds : HubLeaveRoom(<<"a">>, id)
  \/ \E bridge \in Bridges, signal \in Signals, data \in SignalInputs, id \in AcceptedIds :
       Signal(bridge, signal, data, id)

\* The hub of a kernel with the signaling bridges attached.
SpecSignal == HubInit /\ [][SignalNext]_vars

\* ------------------------------------------------------------------ claims

\* The system:ack and system:error messages dispatch t handed to its originator.
SentBy(t, type) ==
  LET id == tasks[t].id
      out == IF MapHas(hub.sent, id) THEN hub.sent[id] ELSE <<>>
  IN {n \in DOMAIN out : out[n].type = type /\ out[n].task = t}

RECURSIVE RegisteredBefore(_, _)
RegisteredBefore(hids, nh) ==
  IF hids = <<>> THEN <<>>
  ELSE IF Head(hids) <= nh THEN <<Head(hids)>> \o RegisteredBefore(Tail(hids), nh)
       ELSE RegisteredBefore(Tail(hids), nh)

\* C1: a message with a truthy ack whose originator is still registered has, once its
\* dispatch is over, exactly one system:ack carrying that token in the originator's
\* outbox; an ack is sent only when every selected handler has completed; a message
\* without an ack token never has a system:ack.
C1_AckExactlyOnce ==
  \A t \in DOMAIN tasks :
    LET task == tasks[t]
        out == hub.sent[task.id]
        acks == SentBy(t, "system:ack")
    IN /\ Cardinality(acks) <= 1
       /\ ~Truthy(task.msg.ack) => acks = {}
       /\ \A n \in acks : /\ out[n].info = task.msg.ack
                          /\ task.k = Len(task.hs)
                          /\ task.state = "done"
       /\ (Finished(task) /\ Truthy(task.msg.ack) /\ MapHas(hub.clients, task.id))
            => Cardinality(acks) = 1

\* C2: dispatch never fails; every handler failure is answered by one system:error
\* "Internal handler error" to a registered originator; when the dispatch is over every
\* selected handler was invoked and the ack, if any, follows the errors.
C2_FailureIsolated ==
  \A t \in DOMAIN tasks :
    LET task == tasks[t]
        out == hub.sent[task.id]
        errors == SentBy(t, "system:error")
    IN /\ task.state # "failed"
       /\ MapHas(hub.clients, task.id) => Cardinality(errors) = task.failures
       /\ \A n \in errors : out[n].info = "Internal handler error"
       /\ Finished(task) => task.k = Len(task.hs)
       /\ \A n \in errors, a \in SentBy(t, "system:ack") : n < a

\* C3: the handlers a dispatch invoked, once it is over, are the handlers registered
\* for the message's type before it began, in registration order, followed by the
\* wildcard handlers registered before it began, in registration order; a handler is
\* invoked only when the one before it has settled.
C3_HandlerOrder ==
  \A t \in DOMAIN tasks :
    LET task == tasks[t]
        typed == IF MapHas(handlers, task.msg.type) THEN handlers[task.msg.type] ELSE <<>>
        expected == RegisteredBefore(typed, task.nh) \o RegisteredBefore(wildcardHandlers, task.nh)
        invoked == SubSeq(task.hs, 1, task.k)
    IN /\ task.k <= Len(expected)
       /\ invoked = SubSeq(expected, 1, task.k)
       /\ Finished(task) => invoked = expected

\* C4: no dispatch invokes a handler or sends its ack while an earlier dispatch of the
\* same connection has not finished.
C4_WireOrder == \A t \in DOMAIN tasks : tasks[t].overlap = {}


\* The client is a member of no room and has no membership entry.
InNoRoom(h, id) ==
  /\ \A r \in DOMAIN h.rooms.rooms : ~SetHas(h.rooms.rooms[r], id)
  /\ ~MapHas(h.rooms.memberships, id)

\* Connection c is open at node n with its handshake with remoteId completed.
Ready(c, n, remoteId) ==
  /\ socks[c].ep[n].made
  /\ ~socks[c].ep[n].closed
  /\ socks[c].ep[n].remoteId = remoteId

\* Nothing is in flight between the nodes: no dial is connecting, no line is unread and
\* no close of a socket is still to be seen by the other end.
MeshQuiet ==
  \A c \in DOMAIN socks :
    /\ socks[c].status # "connecting"
    /\ \A n \in NodeIds :
         /\ socks[c].ep[n].inbox = <<>>
         /\ socks[c].ep[n].closed = socks[c].ep[Other(n)].closed

\* C5: once the hello exchanges are over, a connection that survives between the two
\* nodes (open at both ends, each end having the other's hello) comes with the client
\* mesh:<other nodeId> registered in each node's hub.
C5_OneClientPerPeer ==
  MeshQuiet =>
    \A c \in DOMAIN socks :
      (\A n \in NodeIds : Ready(c, n, Other(n)))
        => \A n \in NodeIds : MapHas(nodes[n].hub.clients, peerClientId(Other(n)))

\* C6: a node never has two open connections whose handshake with the same remote
\* nodeId has completed.
C6_OneConnectionPerPeer ==
  \A n \in NodeIds, remoteId \in NodeIds :
    Cardinality({c \in DOMAIN socks : Ready(c, n, remoteId)}) <= 1

\* The client:connected and client:disconnected events of one id, in order.
RECURSIVE Lifecycle(_, _)
Lifecycle(log, id) ==
  IF log = <<>> THEN <<>>
  ELSE IF Head(log).id = id /\ Head(log).ev \in {"client:connected", "client:disconnected"}
       THEN <<Head(log).ev>> \o Lifecycle(Tail(log), id)
       ELSE Lifecycle(Tail(log), id)

Alternates(log) ==
  \A id \in {log[i].id : i \in DOMAIN log} :
    LET evs == Lifecycle(log, id)
    IN \A i \in DOMAIN evs :
         evs[i] = IF i % 2 = 1 THEN "client:connected" ELSE "client:disconnected"

\* C7: in every hub the events of one client id alternate client:connected,
\* client:disconnected, starting with client:connected.
C7_ConnectDisconnectAlternate ==
  /\ Alternates(hub.log)
  /\ \A n \in NodeIds : Alternates(nodes[n].hub.log)

\* C8: unregisterClient(id) for a registered client takes the client out of every room
\* before its PresenceStore entry is deleted (in no intermediate state of the call is
\* the presence entry gone while a room still holds the client), and in the state in
\* which 'client:disconnected' is emitted the client is in no room, not in the registry
\* and not in the PresenceStore; for an unknown id the call changes and emits nothing.
C8_UnregisterOrder ==
  \A id \in WsIds :
    IF MapHas(hub.clients, id)
    THEN LET st == unregisterSteps(hub, id, Undefined)
             end == unregisterClient(hub, id, Undefined)
         IN /\ \A i \in 1 .. 5 : ~MapHas(st[i].presence, id) => InNoRoom(st[i], id)
            /\ end = st[5]
            /\ InNoRoom(end, id)
            /\ ~MapHas(end.clients, id)
            /\ ~MapHas(end.presence, id)
            /\ Len(end.log) = Len(hub.log) + 1
            /\ end.log[Len(end.log)].ev = "client:disconnected"
            /\ end.log[Len(end.log)].id = id
    ELSE unregisterClient(hub, id, Undefined) = hub

\* A client that was in two rooms has been unregistered while another client is still
\* registered and in a room.
C8_Witness ==
  /\ \E e \in Range(hub.log) : e.ev = "client:disconnected" /\ e.k = 2 /\ InNoRoom(hub, e.id)
  /\ \E id \in DOMAIN hub.clients : roomsFor(hub.rooms, id) # <<>>

\* C9: every registered client has a matching PresenceStore entry and an entry in the
\* RoomManager's membership map.
C9_RegistryPresenceMembership ==
  \A id \in DOMAIN hub.clients :
    /\ MapHas(hub.presence, id)
    /\ hub.presence[id].id = id
    /\ MapHas(hub.rooms.memberships, id)

\* C10: after every sequence of join, leave and leaveAll, for every client c and room
\* name r: c is in list(r) exactly when the lowercased r is in roomsFor(c).
C10_ListRoomsForInverse ==
  \A c \in RoomClientIds, r \in RoomNames :
    SetHas(list(hub.rooms, r), c) <=> SetHas(roomsFor(hub.rooms, c), toLowerCase(r))

\* After a leave: a room addressed by an upper-case name still has a member, who is in
\* two rooms, and some other client is in no room.
C10_Witness ==
  /\ lastCall = "leave"
  /\ \E c \in RoomClientIds :
       /\ SetHas(list(hub.rooms, <<"A">>), c)
       /\ Len(roomsFor(hub.rooms, c)) = 2
  /\ \E c \in RoomClientIds : roomsFor(hub.rooms, c) = <<>>

\* No room of the registry has an empty member set, and a room is in the registry
\* exactly while some client's membership set names it.
RoomsAreLive(rm) ==
  /\ \A r \in DOMAIN rm.rooms : rm.rooms[r] # <<>>
  /\ \A r \in {toLowerCase(x) : x \in RoomNames} :
       MapHas(rm.rooms, r) <=> \E c \in RoomClientIds : SetHas(roomsFor(rm, c), r)

\* C11: the room registry never holds a room with an empty member set, in particular
\* after a leave or a leaveAll from any reachable state; a room is in the registry
\* exactly from its first join until its last member leaves.
C11_NoEmptyRooms ==
  /\ RoomsAreLive(hub.rooms)
  /\ \A c \in RoomClientIds :
       /\ RoomsAreLive(leaveAll(hub.rooms, c))
       /\ roomsFor(leaveAll(hub.rooms, c), c) = <<>>
       /\ \A r \in RoomNames :
            /\ RoomsAreLive(leave(hub.rooms, r, c))
            /\ list(hub.rooms, r) = <<c>> => ~MapHas(leave(hub.rooms, r, c).rooms, toLowerCase(r))
            /\ r # <<>> => MapHas(join(hub.rooms, r, c).rooms, toLowerCase(r))

\* After a leaveAll, a client is the only member of one room and shares another room
\* with a second client: its leaving empties the first room and not the second.
C11_Witness ==
  /\ lastCall = "leaveAll"
  /\ \E c \in RoomClientIds, d \in RoomClientIds :
       /\ c # d
       /\ list(hub.rooms, <<"a">>) = <<c>>
       /\ SetHas(list(hub.rooms, <<"b">>), c)
       /\ SetHas(list(hub.rooms, <<"b">>), d)

\* Pairs of room names that differ only in letter case.
SameButCase == {<<<<"a">>, <<"A">>>>, <<<<"A">>, <<"a">>>>}

UpperChars == {"A", "B"}

\* C12: two names that differ only in letter case address the same room in join,
\* leave, list and Hub.broadcast; roomsFor returns names without upper-case letters;
\* join with the empty name changes nothing.
C12_CaseInsensitiveRooms ==
  /\ \A p \in SameButCase, c \in AcceptedIds :
       /\ join(hub.rooms, p[1], c) = join(hub.rooms, p[2], c)
       /\ leave(hub.rooms, p[1], c) = leave(hub.rooms, p[2], c)
       /\ list(hub.rooms, p[1]) = list(hub.rooms, p[2])
       /\ SetHas(list(join(hub.rooms, p[1], c), p[2]), c)
       /\ ~SetHas(list(leave(hub.rooms, p[1], c), p[2]), c)
       /\ \A message \in OutMessages, except \in SUBSET AcceptedIds :
            broadcast(hub, message, BroadcastOptions(p[1], except), clock)
              = broadcast(hub, message, BroadcastOptions(p[2], except), clock)
  /\ \A c \in AcceptedIds :
       /\ \A r \in Range(roomsFor(hub.rooms, c)) : Range(r) \cap UpperChars = {}
       /\ join(hub.rooms, <<>>, c) = hub.rooms
       /\ joinRoom(hub, <<>>, c).rooms = hub.rooms

\* A broadcast has been made while one registered client was in the room and the other
\* registered client was not, and only the member received a message: the room was
\* addressed by "A" in the broadcast or in the join.
C12_Witness ==
  /\ lastOut.call = "broadcast"
  /\ \E c \in DOMAIN hub.clients, d \in DOMAIN hub.clients :
       /\ list(hub.rooms, <<"A">>) = <<c>>
       /\ MapHas(hub.sent, c)
       /\ ~MapHas(hub.sent, d)

\* C13: for every registered client the rooms list of its PresenceStore snapshot equals
\* RoomManager.roomsFor(id).
C13_PresenceRoomsInSync ==
  \A id \in DOMAIN hub.clients :
    /\ MapHas(hub.presence, id)
    /\ hub.presence[id].rooms = roomsFor(hub.rooms, id)

\* The rooms field of every client record of hub h equals roomsFor of its id.
ClientRoomsInSync(h) ==
  \A id \in DOMAIN h.clients : h.clients[id].rooms = roomsFor(h.rooms, id)

\* C14: in every hub, the rooms field of every registered client's record equals
\* RoomManager.roomsFor(id).
C14_ClientRoomsInSync ==
  /\ ClientRoomsInSync(hub)
  /\ \A n \in NodeIds : ClientRoomsInSync(nodes[n].hub)

\* The messages handed to the connections of hub h.
Handed(h) == UNION {Range(h.sent[id]) : id \in DOMAIN h.sent}

\* The message carries a timestamp the hub took from the clock.
HubStamped(m) == "timestamp" \in DOMAIN m /\ m.timestamp \in 1 .. clock

\* The part of the outbox of id that hub h2 has and hub h1 has not.
NewlySent(h1, h2, id) ==
  LET before == IF MapHas(h1.sent, id) THEN h1.sent[id] ELSE <<>>
      after == IF MapHas(h2.sent, id) THEN h2.sent[id] ELSE <<>>
  IN SubSeq(after, Len(before) + 1, Len(after))

\* C15: every message handed to a connection carries a timestamp assigned by the hub
\* when it was sent, also when the caller supplied one of its own; the copies of one
\* Hub.broadcast call all carry the time of the call.
C15_HubTimestamp ==
  /\ \A m \in Handed(hub) : HubStamped(m)
  /\ \A n \in NodeIds : \A m \in Handed(nodes[n].hub) : HubStamped(m)
  /\ \A message \in OutMessages, room \in OptionRooms, id \in AcceptedIds :
       \A m \in Range(NewlySent(hub, broadcast(hub, message, BroadcastOptions(room, {}), clock), id)) :
         m.timestamp = clock

\* Hub.broadcast from the current hub delivers the stamped message once to every
\* registered client of the target set, and nothing to anyone else.
BroadcastDelivers(message, room, except) ==
  LET after == broadcast(hub, message, BroadcastOptions(room, except), clock)
      members == IF room # NoRoom THEN Range(list(hub.rooms, room)) ELSE DOMAIN hub.clients
      targets == (members \ except) \cap DOMAIN hub.clients
  IN /\ [after EXCEPT !.sent = hub.sent] = hub
     /\ \A id \in DOMAIN after.sent \cup AcceptedIds :
          NewlySent(hub, after, id) =
            IF id \in targets THEN <<Stamp(message, clock)>> ELSE <<>>

\* C16: Hub.broadcast(message, {room, except}) calls send once on each registered
\* client of the target set and on no other client; the target set is the members of
\* the room when a room option is given, all registered clients otherwise, minus except.
C16_BroadcastTargets ==
  \A message \in OutMessages, room \in OptionRooms, except \in SUBSET AcceptedIds :
    BroadcastDelivers(message, room, except)

\* The name is undefined or the empty string.
NoName(room) == room = NoRoom \/ room = <<>>

\* C17: toolkit.rooms.broadcast of client id sends nothing when neither the roomName
\* argument nor message.room names a room; otherwise only registered members of the
\* resolved room receive the message, each member that is not excepted receives it once,
\* and with exceptSelf the client id receives nothing, member or not.
C17_RoomsBroadcast ==
  \A id \in AcceptedIds, message \in OutMessages, roomName \in OptionRooms,
     exceptSelf \in BOOLEAN, except \in SUBSET AcceptedIds :
    LET after == toolkitRoomsBroadcast(hub, id, message, roomName, exceptSelf, except, clock)
        resolved == IF roomName # NoRoom THEN roomName ELSE message.room
    IN /\ (NoName(roomName) /\ NoName(message.room)) => after = hub
       /\ [after EXCEPT !.sent = hub.sent] = hub
       /\ \A x \in DOMAIN after.sent \cup AcceptedIds :
            LET new == NewlySent(hub, after, x)
            IN /\ Len(new) <= 1
               /\ new # <<>> => /\ ~NoName(resolved)
                                /\ SetHas(list(hub.rooms, resolved), x)
                                /\ MapHas(hub.clients, x)
                                /\ x \notin except
                                /\ new = <<Stamp(message, clock)>>
               /\ (exceptSelf /\ x = id) => new = <<>>
               /\ (/\ ~NoName(resolved)
                   /\ SetHas(list(hub.rooms, resolved), x)
                   /\ MapHas(hub.clients, x)
                   /\ x \notin except
                   /\ ~(exceptSelf /\ x = id)) => Len(new) = 1

\* One toolkit.rooms.broadcast has been made while two registered clients were in the
\* room: one of them received the message and the other, excepted, did not.
C17_Witness ==
  /\ lastOut.call = "toolkit.rooms.broadcast"
  /\ lastOut.seq = 1
  /\ \E c \in DOMAIN hub.clients, d \in DOMAIN hub.clients :
       /\ SetHas(list(hub.rooms, <<"a">>), c)
       /\ SetHas(list(hub.rooms, <<"a">>), d)
       /\ MapHas(hub.sent, c)
       /\ ~MapHas(hub.sent, d)

\* C18: however often start() is called, one call after another or while an earlier
\* call has not resolved, no transport's start(hub) is invoked more than once before
\* stop() is called.
C18_StartIdempotent ==
  \A t \in Transports : life.invoked[t] <= 1

\* C19: in a kernel that start() has started and stop() was not called on since, every
\* transport has had its start(hub) invoked, also one that was given to useTransport
\* after start() was called and while that call was still awaiting its transports.
C19_LateTransportStarted ==
  (life.started /\ life.startCalled) =>
    \A t \in Range(life.transports) : life.invoked[t] >= 1

\* Every MeshConnection node n created is closed.
ConnectionsClosed(n) ==
  \A c \in DOMAIN socks : socks[c].ep[n].made => socks[c].ep[n].closed

\* Every client node n's hub registered has a client:disconnected for each of its
\* client:connected events.
AllDisconnected(n) ==
  \A id \in {nodes[n].hub.log[i].id : i \in DOMAIN nodes[n].hub.log} :
    Len(Lifecycle(nodes[n].hub.log, id)) % 2 = 0

RegistryEmpty(n) == DOMAIN nodes[n].hub.clients = {}

\* C20: at the step in which the promise of stop() resolves at a node, every connection
\* of the node's mesh transport is closed, also those whose handshake has not
\* completed, every client that was registered has its client:disconnected and the
\* hub's registry is empty.
C20_StopClosesEverything ==
  [][\A n \in NodeIds :
       (nodes[n].stop # "resolved" /\ nodes'[n].stop = "resolved") =>
         (ConnectionsClosed(n) /\ AllDisconnected(n) /\ RegistryEmpty(n))']_vars

\* C21: no start() call stays pending on a transport whose start has failed: when a
\* transport's onStart throws or its listener cannot bind, the promise of start() has
\* rejected.
C21_StartFailureRejects ==
  \A p \in DOMAIN life.pendingStarts : life.pendingStarts[p] \cap life.bindFailed[p] = {}

\* The number of client:disconnected events of client id.
Disconnects(log, id) ==
  Cardinality({n \in DOMAIN log : log[n].ev = "client:disconnected" /\ log[n].id = id})

\* C22: whatever exit events a WebSocket connection has seen, in whatever order, a
\* closed connection has its heartbeat timer cleared, its client is out of the hub and
\* exactly one client:disconnected was emitted for it; a connection on which close()
\* was called is closed; an open connection is registered, with no client:disconnected.
C22_ExactlyOneDisconnect ==
  \A i \in DOMAIN wsConns :
    LET c == wsConns[i]
        id == WsId(i)
    IN /\ c.ended => c.closed
       /\ c.closed => /\ c.heartbeat = "cleared"
                      /\ ~MapHas(hub.clients, id)
                      /\ ~c.mapped
                      /\ Disconnects(hub.log, id) = 1
       /\ ~c.closed => /\ c.heartbeat = "set"
                       /\ MapHas(hub.clients, id)
                       /\ Disconnects(hub.log, id) = 0

\* A close frame has closed a connection while the dispatch of the text frame before it
\* in the same chunk is suspended; the frame behind the close frame stays in the buffer.
C22_Witness ==
  \E i \in DOMAIN wsConns :
    /\ wsConns[i].closed /\ wsConns[i].ended
    /\ wsConns[i].buffer # <<>>
    /\ microQ # <<>>
    /\ tasks[Head(microQ)].id = WsId(i)
    /\ Disconnects(hub.log, WsId(i)) = 1

\* C23: at a heartbeat tick a connection that got no text frame and no pong frame since
\* the previous tick (the data that sets alive) is closed and its client unregistered;
\* at any other tick, the first one included, alive is cleared, one ping is written and
\* the connection stays open. So the alive flag of an open connection says exactly
\* whether such a frame arrived since the previous tick, a connection heard in every
\* interval is never closed by the heartbeat, and a silent one is closed at the second
\* tick.
C23_Heartbeat ==
  \A i \in DOMAIN wsConns :
    LET c == wsConns[i]
        after == ping(WsState, i)
    IN ~c.closed =>
         /\ c.alive = ~c.quiet
         /\ IF c.quiet
            THEN /\ after.conns[i].closed
                 /\ after.conns[i].heartbeat = "cleared"
                 /\ after.conns[i].pings = c.pings
                 /\ ~MapHas(after.hub.clients, WsId(i))
            ELSE /\ ~after.conns[i].closed
                 /\ ~after.conns[i].alive
                 /\ after.conns[i].pings = c.pings + 1
                 /\ after.hub = hub
                 /\ ping(after, i).conns[i].closed

\* One open connection has been pinged and has not answered, another has been pinged
\* and has answered.
C23_Witness ==
  \E i, j \in DOMAIN wsConns :
    /\ ~wsConns[i].closed /\ wsConns[i].quiet /\ wsConns[i].pings = 1
    /\ ~wsConns[j].closed /\ ~wsConns[j].quiet /\ wsConns[j].pings = 1

\* C24: every message event the hub emits carries a type that is a non-empty string: a
\* payload that is no JSON or has no such type is dropped by the transport.
C24_OnlyTypedMessages ==
  \A n \in DOMAIN hub.log :
    hub.log[n].ev = "message" => (IsString(hub.log[n].type) /\ hub.log[n].type # "")

\* C25: handleUpgrade writes the 101 response and registers a client exactly if the
\* Upgrade header is websocket, the URL starts with the configured path when there is
\* one, and the Sec-WebSocket-Key is a non-empty string; in every other case the
\* socket is destroyed, nothing is written and the hub and the connections are left
\* as they were.
C25_UpgradeAccepted ==
  nextClient < MaxClients =>
    \A req \in Requests, path \in Paths :
      LET i == nextClient + 1
          r == handleUpgrade(WsState, i, i, req, path)
          valid == /\ req.upgrade # NoHeader
                   /\ toLowerCase(req.upgrade) = Websocket
                   /\ path # NoHeader => startsWith(req.url, path)
                   /\ req.key # Undefined
                   /\ req.key # ""
      IN IF valid
         THEN /\ r.socket.written
              /\ ~r.socket.destroyed
              /\ MapHas(r.ws.hub.clients, WsId(i))
         ELSE /\ ~r.socket.written
              /\ r.socket.destroyed
              /\ r.ws = WsState

\* C26: decodeFrame(encodeFrame(p)) is a text frame (opcode 1) whose payload is p and
\* whose byte count is the length of the encoded frame, for payloads in each of the
\* three length encodings.
C26_FrameRoundTrip ==
  codec.stage = "decoded" =>
    /\ codec.out.frame
    /\ codec.out.opcode = 1
    /\ codec.out.payload = codec.payload
    /\ codec.out.length = Len(codec.payload)
    /\ codec.out.bytes = Len(codec.wire)
    /\ Len(codec.wire) = Len(codec.payload) +
         (IF Len(codec.payload) < 126 THEN 2 ELSE IF Len(codec.payload) < 65536 THEN 4 ELSE 10)

\* A payload that needs the 64-bit length has been encoded and decoded.
C26_Witness ==
  /\ codec.stage = "decoded"
  /\ Len(codec.payload) >= Len64
  /\ codec.out.frame
  /\ codec.out.payload = codec.payload

\* The connections node n dialled that are open at n.
LiveDialled(n) ==
  {c \in DOMAIN socks :
     /\ socks[c].dialer = n
     /\ socks[c].status = "connected"
     /\ ~socks[c].ep[n].closed}

\* The address of node n's configured peer is looked after: a dial to it is pending,
\* a reconnect timer is set, or a connection dialled to it is open.
Covered(n) ==
  \/ SetHas(nodes[n].pendingDials, addressKey(Address(Other(n))))
  \/ nodes[n].timers > 0
  \/ LiveDialled(n) # {}

\* Node n runs and its peer address has neither a pending dial nor an open dialled
\* connection.
NeedsDial(n) ==
  /\ nodes[n].started
  /\ ~SetHas(nodes[n].pendingDials, addressKey(Address(Other(n))))
  /\ LiveDialled(n) = {}

\* C27: while a node's mesh transport runs, its configured peer address always has a
\* pending dial, a scheduled reconnect or an open dialled connection, and a reconnect
\* timer that fires while the address has neither a pending dial nor an open dialled
\* connection does dial it, however dials fail and connections close.
C27_AlwaysReconnecting ==
  \A n \in NodeIds :
    /\ nodes[n].started => Covered(n)
    /\ (NeedsDial(n) /\ nodes[n].timers > 0) => Dials(MeshState, n, Address(Other(n)))

\* In ms the handshake of connection c has completed at both ends and both ends are
\* open.
HandshakeDoneIn(ms, c) ==
  /\ ms.socks[c].status = "connected"
  /\ \A n \in NodeIds :
       /\ ms.socks[c].ep[n].made
       /\ ~ms.socks[c].ep[n].closed
       /\ ms.socks[c].ep[n].remoteId = Other(n)

HandshakeDone(c) == HandshakeDoneIn(MeshState, c)

\* This step is a 'data' event of connection c at node n with the next k unread lines.
ReadsChunk(c, n, k) ==
  /\ socks[c].ep[n].made
  /\ ~socks[c].ep[n].closed
  /\ k \in 1 .. Len(socks[c].ep[n].inbox)
  /\ nodes' = dataEvent(MeshState, c, n, k).nodes
  /\ socks' = dataEvent(MeshState, c, n, k).socks

\* The state in the middle of a 'data' event of connection c at node n, when handleChunk
\* has run processRaw on the first j unread lines.
AfterLines(c, n, j) ==
  meshHandleChunk(MeshState, c, n, SubSeq(socks[c].ep[n].inbox, 1, j))

\* hub.send of message on node n to the client of the other node writes the stamped
\* message, with its type and payload, to the other end of connection c.
SendWrites(n, c, message) ==
  LET after == meshHubSend(MeshState, n, peerClientId(Other(n)), message, clock)
      before == socks[c].ep[Other(n)].inbox
      inbox == after.socks[c].ep[Other(n)].inbox
  IN /\ Len(inbox) = Len(before) + 1
     /\ SubSeq(inbox, 1, Len(before)) = before
     /\ inbox[Len(inbox)].kind = "message"
     /\ parseMessage(inbox[Len(inbox)].message).type = message.type
     /\ parseMessage(inbox[Len(inbox)].message).payload = message.payload

\* Between before and after the hub of node n emits exactly one message event, for the
\* message of the line and the registered mesh client of the other node.
EmitsOnce(before, after, n, line) ==
  LET message == parseMessage(line.message)
      clientId == peerClientId(Other(n))
  IN /\ after.nodes[n].hub.log =
          Append(before.nodes[n].hub.log,
                 Ev("message", clientId, message.type, message.payload, NoTask, 0))
     /\ MapHas(before.nodes[n].hub.clients, clientId)
     /\ before.nodes[n].hub.clients[clientId].transport = "mesh"

\* C28: between two nodes whose handshake has completed, a message sent through the
\* hub of one node to the mesh client of the other is written to the connection, and
\* when the other node reads its line, alone or as one line of a chunk, its hub emits
\* exactly one message event with the same type and payload, for the client
\* mesh:<sender> whose transport is "mesh".
C28_MeshDelivery ==
  /\ [](\A n \in NodeIds, message \in MeshMessages :
         LET clientId == peerClientId(Other(n))
         IN (MapHas(nodes[n].hub.clients, clientId)
             /\ HandshakeDone(nodes[n].hub.clients[clientId].conn))
            => SendWrites(n, nodes[n].hub.clients[clientId].conn, message))
  /\ [][\A c \in DOMAIN socks, n \in NodeIds, k \in 1 .. MaxLines :
         ReadsChunk(c, n, k) =>
           \A i \in 1 .. k :
              LET line == socks[c].ep[n].inbox[i]
                  before == AfterLines(c, n, i - 1)
              IN (line.kind = "message" /\ HandshakeDoneIn(before, c))
                   => EmitsOnce(before, AfterLines(c, n, i), n, line)]_vars

\* The description of a signal: the description member, or its alias offer.
DescriptionOf(data) == IF data.description # Undefined THEN data.description ELSE data.offer

\* The signal passes the validation of its channel.
ValidSignal(signal, data) ==
  CASE signal \in {"offer", "answer"} -> data.kind = "object" /\ Truthy(DescriptionOf(data))
    [] signal = "candidate" -> data.kind = "object" /\ Truthy(data.candidate)
    [] OTHER -> TRUE

\* The member is set: a string that is not empty.
TargetSet(data) == data.kind = "object" /\ IsString(data.target) /\ data.target # ""
RoomSet(data) == data.kind = "object" /\ data.room \notin {NoRoom, NumberRoom, <<>>}

\* The clients that are handed a message between hub and after.
Receivers(after) ==
  {c \in DOMAIN after.sent : NewlySent(hub, after, c) # <<>>}

\* The envelope of the signal of client id as it is handed to a connection now: from
\* is the sender, whatever the payload says.
Forwarded(bridge, signal, data, id) ==
  [type |-> channelOf(bridge, signal),
   payload |-> [from |-> id,
                room |-> IF RoomSet(data) \/ (data.kind = "object" /\ data.room = <<>>)
                         THEN data.room ELSE NoRoom,
                target |-> IF data.kind = "object" /\ IsString(data.target)
                           THEN data.target ELSE Undefined,
                description |-> DescriptionOf(data),
                candidate |-> data.candidate,
                metadata |-> data.metadata],
   timestamp |-> clock]

ErrorTo(bridge, reason) ==
  [type |-> bridge.namespace \o ":error", payload |-> [reason |-> reason],
   timestamp |-> clock]

\* The registered members of the room, the sender left out.
OtherMembers(room, id) == (Range(list(hub.rooms, room)) \cap DOMAIN hub.clients) \ {id}

\* The second and third outcome: the room's other members, else the error reply.
RoomOrError(after, bridge, signal, data, id) ==
  IF RoomSet(data)
  THEN \A c \in DOMAIN after.sent \cup DOMAIN hub.clients :
         NewlySent(hub, after, c) =
           IF c \in OtherMembers(data.room, id)
           THEN <<Forwarded(bridge, signal, data, id)>> ELSE <<>>
  ELSE /\ Receivers(after) = {id}
       /\ NewlySent(hub, after, id) = <<ErrorTo(bridge, "TARGET_OR_ROOM_REQUIRED")>>

\* C29 as stated: a valid signal with a target has the envelope handed to that target
\* and to nobody else, whoever the target is.
OriginalRouting(after, bridge, signal, data, id) ==
  IF TargetSet(data)
  THEN /\ Receivers(after) = {data.target}
       /\ NewlySent(hub, after, data.target) = <<Forwarded(bridge, signal, data, id)>>
  ELSE RoomOrError(after, bridge, signal, data, id)

C29_Original ==
  \A bridge \in Bridges, signal \in Signals, data \in SignalData, id \in DOMAIN hub.clients :
    ValidSignal(signal, data) =>
      OriginalRouting(onSignal(hub, bridge, signal, data, id, clock),
                      bridge, signal, data, id)

\* C29: a valid signal has exactly one of three outcomes. With a target (a non-empty
\* string) nobody but the target is handed anything, and the target is handed the
\* envelope once if it is a registered client, nothing otherwise; else with a room (a
\* non-empty string) every registered member of the room but the sender is handed the
\* envelope once and nobody else anything; else the originator alone is handed the
\* error TARGET_OR_ROOM_REQUIRED. The envelope's from is the sender's id.
Routing(after, bridge, signal, data, id) ==
  IF TargetSet(data)
  THEN IF MapHas(hub.clients, data.target)
       THEN /\ Receivers(after) = {data.target}
            /\ NewlySent(hub, after, data.target) = <<Forwarded(bridge, signal, data, id)>>
       ELSE Receivers(after) = {}
  ELSE RoomOrError(after, bridge, signal, data, id)

C29_SignalRouting ==
  \A bridge \in Bridges, signal \in Signals, data \in SignalData, id \in DOMAIN hub.clients :
    ValidSignal(signal, data) =>
      Routing(onSignal(hub, bridge, signal, data, id, clock), bridge, signal, data, id)

\* A signal was forwarded: a client holds an envelope of the last signal's channel
\* that another client sent.
C29_Witness ==
  /\ lastOut.seq > 0
  /\ \E c \in DOMAIN hub.sent : \E m \in Range(hub.sent[c]) :
       m.type = lastOut.call /\ m.payload.from # c

\* The reason the channel of the signal reports for a signal that fails validation.
InvalidReason(signal) ==
  CASE signal = "offer" -> "INVALID_OFFER"
    [] signal = "answer" -> "INVALID_ANSWER"
    [] OTHER -> "INVALID_CANDIDATE"

InvalidReasons == {InvalidReason(signal) : signal \in Signals}

\* Whether the message is an error of the bridge that reports a failed validation.
IsInvalidError(bridge, m) ==
  m.type = bridge.namespace \o ":error" /\ m.payload.reason \in InvalidReasons

\* C30: an offer or answer without a description (or the alias offer), and a candidate
\* signal without a candidate, has the originator handed exactly one <ns>:error with
\* the reason of its channel; nobody else is handed anything and no room, client or
\* presence entry changes. A bye signal is never answered with such an error.
C30_InvalidSignal ==
  \A bridge \in Bridges, signal \in Signals, data \in SignalData, id \in DOMAIN hub.clients :
    LET after == onSignal(hub, bridge, signal, data, id, clock)
    IN /\ (signal # "bye" /\ ~ValidSignal(signal, data)) =>
            /\ Receivers(after) = {id}
            /\ NewlySent(hub, after, id) = <<ErrorTo(bridge, InvalidReason(signal))>>
            /\ [after EXCEPT !.sent = hub.sent] = hub
       /\ signal = "bye" =>
            \A c \in DOMAIN after.sent : \A m \in Range(NewlySent(hub, after, c)) :
              ~IsInvalidError(bridge, m)

\* A client was told that its signal failed validation.
C30_Witness ==
  /\ lastOut.seq > 0
  /\ \E bridge \in Bridges, c \in DOMAIN hub.sent : \E m \in Range(hub.sent[c]) :
       IsInvalidError(bridge, m)

\* The signal is one that joins its room: a valid offer with a room, handled by a
\* bridge with autoJoinRooms.
AutoJoins(bridge, signal, data) ==
  bridge.autoJoinRooms /\ signal = "offer" /\ ValidSignal(signal, data) /\ RoomSet(data)

\* C31: with autoJoinRooms a valid offer that carries a room leaves the originator a
\* member of that room and changes no other membership; when the offer goes to the
\* room, the room's other registered members are handed it and the originator is not.
\* Every other signal, and every signal of a bridge without autoJoinRooms, leaves
\* rooms, clients and presence as they were.
C31_AutoJoin ==
  \A bridge \in Bridges, signal \in Signals, data \in SignalData, id \in DOMAIN hub.clients :
    LET after == onSignal(hub, bridge, signal, data, id, clock)
    IN IF AutoJoins(bridge, signal, data)
       THEN /\ id \in Range(list(after.rooms, data.room))
            /\ [after EXCEPT !.sent = hub.sent] = joinRoom(hub, data.room, id)
            /\ ~TargetSet(data) =>
                 /\ NewlySent(hub, after, id) = <<>>
                 /\ \A c \in OtherMembers(data.room, id) :
                      NewlySent(hub, after, c) = <<Forwarded(bridge, signal, data, id)>>
       ELSE [after EXCEPT !.sent = hub.sent] = hub

\* An offer of the bridge with autoJoinRooms went to its room, and its sender is a
\* member of that room.
C31_Witness ==
  /\ lastOut.call = "rtc:offer"
  /\ \E c \in DOMAIN hub.sent : \E m \in Range(hub.sent[c]) :
       /\ m.type = "rtc:offer"
       /\ m.payload.from # c
       /\ m.payload.target = Undefined
       /\ m.payload.from \in Range(list(hub.rooms, m.payload.room))

\* Node n reads on connection c, in this step, the hello of a node it already has a
\* connection with, and closes c as a duplicate.
RejectsDuplicate(n, c) ==
  /\ socks[c].ep[n].made
  /\ ~socks[c].ep[n].closed
  /\ socks[c].ep[n].remoteId = Undefined
  /\ socks[c].ep[n].inbox # <<>>
  /\ Head(socks[c].ep[n].inbox).kind = "hello"
  /\ MapHas(nodes[n].connections, Head(socks[c].ep[n].inbox).nodeId)
  /\ nodes[n].connections[Head(socks[c].ep[n].inbox).nodeId] # c
  /\ socks'[c].ep[n].closed
  /\ socks'[c].ep[n].remoteId = Head(socks[c].ep[n].inbox).nodeId

\* C32: when a node closes a newly ready connection as a duplicate, the connection
\* registered before stays in the connection table with its address binding, its
\* client stays registered in the hub and the hub emits no event.
C32_DuplicateLeavesFirst ==
  [][\A n \in NodeIds, c \in DOMAIN socks :
       RejectsDuplicate(n, c) =>
         /\ nodes'[n].connections = nodes[n].connections
         /\ nodes'[n].connectionAddresses = nodes[n].connectionAddresses
         /\ nodes'[n].hub.clients = nodes[n].hub.clients
         /\ nodes'[n].hub.log = nodes[n].hub.log]_vars

\* C33: every member of every room is a client of the hub registry, so that a client
\* that was unregistered is a member of no room, also after a handler dispatched for
\* it called toolkit.rooms.join once it had disconnected.
C33_MembersRegistered ==
  \A r \in DOMAIN hub.rooms.rooms : Range(hub.rooms.rooms[r]) \subseteq DOMAIN hub.clients

\* C34: once a mesh connection is closed at a node, on whatever path and whatever
\* hello lines the remote wrote on it, no client registered in the node's hub is bound
\* to it and the connection table does not hold it.
C34_CloseReleasesClients ==
  \A n \in NodeIds, c \in DOMAIN socks :
    (socks[c].ep[n].made /\ socks[c].ep[n].closed) =>
      /\ \A id \in DOMAIN nodes[n].hub.clients : nodes[n].hub.clients[id].conn # c
      /\ \A r \in DOMAIN nodes[n].connections : nodes[n].connections[r] # c

\* Node n's stop() has resolved and start() has not been called since, nor is it
\* called in this step.
StaysStopped(n) ==
  /\ nodes[n].stop = "resolved"
  /\ ~nodes[n].started /\ ~nodes[n].starting /\ ~nodes[n].resuming
  /\ ~nodes'[n].started /\ ~nodes'[n].starting /\ ~nodes'[n].resuming

\* Node n dials in this step.
DialsNow(n) == Len(socks') > Len(socks) /\ socks'[Len(socks')].dialer = n

\* Node n's server accepts a connection in this step.
AcceptsNow(n) ==
  \E c \in DOMAIN socks :
    socks[c].dialer # n /\ ~socks[c].ep[n].made /\ socks'[c].ep[n].made

\* C35: from the moment a node's stop() has resolved until its start() is called
\* again, its mesh transport dials no address and accepts no connection, and its hub
\* registers no client: the reconnect timers that are set, also those the closes of
\* stop() itself set, do not dial.
C35_QuietAfterStop ==
  [][\A n \in NodeIds :
       StaysStopped(n) =>
         /\ ~DialsNow(n)
         /\ ~AcceptsNow(n)
         /\ DOMAIN nodes'[n].hub.clients \subseteq DOMAIN nodes[n].hub.clients]_vars


\* The context dispatch hands to the handlers of a message from client id:
\* hub.snapshot(client.id).
contextOf(id) == snapshot(hub, id)

\* C36: whenever dispatch would build a context for a client, the context's rooms and
\* metadata are those of the PresenceStore's snapshot of that client, presence.get(id),
\* metadata merged by an earlier presence.update included.
C36_ContextIsPresence ==
  \A id \in AcceptedIds :
     MapHas(hub.clients, id) =>
        /\ MapHas(hub.presence, id)
        /\ contextOf(id).rooms = get(hub.presence, id).rooms
        /\ contextOf(id).metadata = get(hub.presence, id).metadata


\* The dials of node n that are connecting: sockets dial created whose 'connect' or
\* 'error' listener has not run yet.
PendingDialSocks(n) ==
  {c \in DOMAIN socks : socks[c].dialer = n /\ socks[c].status = "connecting"}

\* The open connections node n dialled (created with the address key) whose handshake
\* is complete: the remote hello has been read.
BoundReady(n) ==
  {c \in DOMAIN socks : /\ socks[c].dialer = n
                        /\ socks[c].ep[n].made
                        /\ ~socks[c].ep[n].closed
                        /\ socks[c].ep[n].remoteId # Undefined}

\* C37: a node starts a dial only to a configured peer address, with no dial to that
\* address pending and no ready connection bound to that address; at most one dial per
\* address is pending at any time.
C37_DialGuard ==
  /\ [](\A n \in NodeIds : Cardinality(PendingDialSocks(n)) <= 1)
  /\ [][\A n \in NodeIds :
          DialsNow(n) =>
            /\ MapHas(nodes[n].peers, addressKey(Address(Other(n))))
            /\ ~SetHas(nodes[n].pendingDials, addressKey(Address(Other(n))))
            /\ PendingDialSocks(n) = {}
            /\ BoundReady(n) = {}]_vars


\* In this step node n reads a chunk of connection c whose line i is a hello.
ReadsHello(c, n, i) ==
  \E k \in i .. MaxLines :
     /\ ReadsChunk(c, n, k)
     /\ socks[c].ep[n].inbox[i].kind = "hello"

\* In this step node n reads a chunk of connection c whose line i is a message.
ReadsEnvelope(c, n, i) ==
  \E k \in i .. MaxLines :
     /\ ReadsChunk(c, n, k)
     /\ socks[c].ep[n].inbox[i].kind = "message"

\* The hub of node n registers the client mesh:<remoteId> in this step.
RegistersPeer(n, remoteId) ==
  \E j \in (Len(nodes[n].hub.log) + 1) .. Len(nodes'[n].hub.log) :
     /\ nodes'[n].hub.log[j].ev = "client:connected"
     /\ nodes'[n].hub.log[j].id = peerClientId(remoteId)

\* The hub of node n emits a message event in this step.
EmitsMessage(n) ==
  \E j \in (Len(nodes[n].hub.log) + 1) .. Len(nodes'[n].hub.log) :
     nodes'[n].hub.log[j].ev = "message"

\* C38: on every connection the dialler has sent its hello from the start and the
\* acceptor sends its hello only when it reads a hello line; no side sends more than one
\* hello; the client mesh:<remoteId> is registered only on reading a hello line naming
\* remoteId on a connection whose local hello is sent by then; a message line read
\* while no hello with a nodeId has been received changes nothing, and a message event
\* is emitted only for a message line read by a connection that has its remoteId and has
\* sent its hello before that line.
C38_HelloOrder ==
  /\ [](\A c \in DOMAIN socks, n \in NodeIds :
          socks[c].ep[n].made =>
            /\ socks[c].ep[n].hellos <= 1
            /\ socks[c].ep[n].handshakeSent <=> socks[c].ep[n].hellos = 1
            /\ socks[c].dialer = n => socks[c].ep[n].hellos = 1
            /\ socks[c].ep[n].remoteId # Undefined => socks[c].ep[n].handshakeSent
            /\ socks[c].ep[n].remoteId = Undefined =>
                 \A message \in MeshMessages :
                    processRaw(MeshState, c, n, MessageLine(message)) = MeshState)
  /\ [][\A c \in DOMAIN socks, n \in NodeIds :
          (socks[c].dialer # n /\ socks'[c].ep[n].hellos > socks[c].ep[n].hellos)
             => \E i \in 1 .. MaxLines :
                   /\ ReadsHello(c, n, i)
                   /\ AfterLines(c, n, i).socks[c].ep[n].hellos
                        > AfterLines(c, n, i - 1).socks[c].ep[n].hellos]_vars
  /\ [][\A n \in NodeIds, remoteId \in NodeIds :
          RegistersPeer(n, remoteId) =>
            \E c \in DOMAIN socks, i \in 1 .. MaxLines :
               /\ ReadsHello(c, n, i)
               /\ socks[c].ep[n].inbox[i].nodeId = remoteId
               /\ AfterLines(c, n, i).socks[c].ep[n].handshakeSent
               /\ AfterLines(c, n, i).socks[c].ep[n].hellos = 1
               /\ AfterLines(c, n, i).socks[c].ep[n].remoteId = remoteId]_vars
  /\ [][\A n \in NodeIds :
          EmitsMessage(n) =>
            \E c \in DOMAIN socks, i \in 1 .. MaxLines :
               /\ ReadsEnvelope(c, n, i)
               /\ AfterLines(c, n, i - 1).socks[c].ep[n].remoteId # Undefined
               /\ AfterLines(c, n, i - 1).socks[c].ep[n].handshakeSent]_vars

\* One connection is open and ready at both ends with both clients registered and
\* nothing unread, and no other socket has connected; one message line was written, and
\* no hub has emitted a message event: the line reached the dialler before the
\* acceptor's hello and was dropped.
C38_Witness ==
  /\ lastOut.seq = 1
  /\ \E c \in DOMAIN socks :
       /\ \A d \in DOMAIN socks \ {c}, n \in NodeIds : ~socks[d].ep[n].made
       /\ \A n \in NodeIds :
            /\ socks[c].ep[n].made
            /\ ~socks[c].ep[n].closed
            /\ socks[c].ep[n].inbox = <<>>
            /\ socks[c].ep[n].remoteId = Other(n)
            /\ socks[c].ep[n].hellos = 1
            /\ MapHas(nodes[n].hub.clients, peerClientId(Other(n)))
            /\ \A i \in DOMAIN nodes[n].hub.log : nodes[n].hub.log[i].ev # "message"


\* Every message event of the log for an id that follows a client:disconnected event of
\* that id has a client:connected event of the id in between.
NoMessageAfterDisconnect(log) ==
  \A i \in DOMAIN log, j \in DOMAIN log :
     (i < j /\ log[i].ev = "client:disconnected" /\ log[j].ev = "message"
            /\ log[j].id = log[i].id)
       => \E k \in (i + 1) .. (j - 1) :
             log[k].ev = "client:connected" /\ log[k].id = log[i].id

\* C39: a payload that arrives for a client id that is not in the registry changes
\* nothing; for a registered client an accepted payload makes the hub emit one message
\* event for that id; and the hub's log has no message event of an id after a
\* client:disconnected of that id without a client:connected in between.
C39_ReceiveNeedsClient ==
  /\ \A id \in WsIds, raw \in RawPayloads, beh \in BehaviourChoices :
        LET after == handleRawPayload(KernelState, id, raw, beh)
        IN IF MapHas(hub.clients, id) /\ Accepted(raw)
           THEN /\ Len(after.hub.log) = Len(hub.log) + 1
                /\ SubSeq(after.hub.log, 1, Len(hub.log)) = hub.log
                /\ after.hub.log[Len(after.hub.log)].ev = "message"
                /\ after.hub.log[Len(after.hub.log)].id = id
           ELSE after = KernelState
  /\ NoMessageAfterDisconnect(hub.log)

\* Two connections listen to one socket; one was closed, and a text frame that arrived
\* on the socket afterwards gave a message event for the other only.
C39_Witness ==
  \E a \in DOMAIN wsConns, b \in DOMAIN wsConns :
     /\ a # b
     /\ wsConns[a].socket = wsConns[b].socket
     /\ \E i \in DOMAIN hub.log, j \in DOMAIN hub.log :
           /\ i < j
           /\ hub.log[i].ev = "client:disconnected" /\ hub.log[i].id = WsId(a)
           /\ hub.log[j].ev = "message" /\ hub.log[j].id = WsId(b)

\* C40: once every byte of a stream of complete frames has arrived, the frames the
\* connection has handled, with their opcodes and payloads, are those it handles when
\* the stream arrives in one chunk, however the stream was split.
C40_ChunkEquivalence ==
  (stream.stage = "arriving" /\ stream.pending = <<>>)
     => stream.conn.handled = stream.whole

====
